---------------------------- MODULE Spec2Model ----------------------------
(***************************************************************************)
(* A model of fastrep: the report generator (report_generator.py), the     *)
(* report route of the web front end (app.py) and the record store         *)
(* (database.py).                                                          *)
(*                                                                         *)
(* Text is modelled by strings.  A rendered text report is the list        *)
(* report_lines that format_report joins with "\n"; a rendered HTML report *)
(* is the list html_parts that format_report_html joins with "".  Dates    *)
(* are proleptic Gregorian ordinals (datetime.toordinal()), creation       *)
(* timestamps and the wall clock are whole seconds.                        *)
(***************************************************************************)
EXTENDS Integers, Sequences, FiniteSets, TLC

VARIABLES
    logs,       \* the rows of table logs, in rowid order
    sqlite_sequence,    \* the largest rowid table logs ever held (AUTOINCREMENT)
    settings,   \* the rows of table settings: key -> value
    today,      \* the ordinal of datetime.now().date()
    clock,      \* int(time.time())
    cline,      \* whether shutil.which('cline') finds the tool
    files,      \* ~/.fastrep/temp: path -> [writer, content]
    req,        \* the report requests being served: id -> locals
    call        \* a direct call of format_report / format_report_html

vars == <<logs, sqlite_sequence, settings, today, clock, cline, files, req, call>>

-----------------------------------------------------------------------------
(* Bounds of the model.                                                    *)

MaxLogs == 3        \* longest entry list given to a direct call
MaxClock == 2       \* the wall clock runs from 0 to MaxClock seconds
MaxRequests == 2    \* a server thread answers at most MaxRequests requests

-----------------------------------------------------------------------------
(* Values.                                                                 *)

\* an argument, form field, option or result that is None or a str: None is the
\* empty tuple and the str s the tuple Text(s), so that the text 'None' is a str
\* like any other
None == <<>>
Text(s) == <<s>>
TextOf(x) == x[1]

\* a local that is not bound yet, in a record of locals; it is not read before
\* it is bound
Unbound == "<unbound>"

\* ord(c) of each one-character str of the characters U+0020 to U+005F and U+0061
\* to U+007E, listed in the order of their code points; the texts of the model
\* are made of these
OrdTable ==
    LET AsciiToUnderscore ==
            " !\"#$%&'()*+,-./0123456789:;<=>?@ABCDEFGHIJKLMNOPQRSTUVWXYZ[\\]^_"
        AsciiFromLowerA == "abcdefghijklmnopqrstuvwxyz{|}~"
    IN  [c \in {SubSeq(AsciiToUnderscore, i, i) : i \in 1..Len(AsciiToUnderscore)}
               \cup {SubSeq(AsciiFromLowerA, i, i) : i \in 1..Len(AsciiFromLowerA)} |->
            IF \E i \in 1..Len(AsciiToUnderscore) : SubSeq(AsciiToUnderscore, i, i) = c
            THEN 31 + (CHOOSE i \in 1..Len(AsciiToUnderscore) :
                            SubSeq(AsciiToUnderscore, i, i) = c)
            ELSE 96 + (CHOOSE i \in 1..Len(AsciiFromLowerA) :
                            SubSeq(AsciiFromLowerA, i, i) = c)]

\* project.replace(' ', '_')
RECURSIVE ReplaceSpaces(_)
ReplaceSpaces(project) ==
    IF project = "" THEN ""
    ELSE (IF SubSeq(project, 1, 1) = " " THEN "_" ELSE SubSeq(project, 1, 1))
         \o ReplaceSpaces(SubSeq(project, 2, Len(project)))

\* a < b for two str values, as Python's sorted() and SQLite's BINARY collation
\* compare them: by the code points at the first place where they differ, and
\* by length when one is the beginning of the other
StrLess(a, b) ==
    LET n == IF Len(a) < Len(b) THEN Len(a) ELSE Len(b)
        Differ(D) ==
            IF D = {} THEN Len(a) < Len(b)
            ELSE LET At(i) == OrdTable[SubSeq(a, i, i)] < OrdTable[SubSeq(b, i, i)]
                 IN  At(CHOOSE i \in D : \A j \in D : i <= j)
    IN  a # b /\ Differ({i \in 1..n : SubSeq(a, i, i) # SubSeq(b, i, i)})

-----------------------------------------------------------------------------
(* Results of calls: a value, or the exception raised.                     *)

Ok(v) == [exc |-> "", value |-> v]
Raise(e) == [exc |-> e, value |-> <<>>]
NotCalled == [exc |-> "not called", value |-> <<>>]

-----------------------------------------------------------------------------
(* datetime: ordinal -> (year, month, day), weekday, strftime.             *)

IsLeap(y) == y % 4 = 0 /\ (y % 100 # 0 \/ y % 400 = 0)

DaysInMonth(y, m) ==
    IF m = 2 THEN (IF IsLeap(y) THEN 29 ELSE 28)
    ELSE IF m \in {4, 6, 9, 11} THEN 30 ELSE 31

RECURSIVE DaysBeforeMonth(_, _)
DaysBeforeMonth(y, m) ==
    IF m = 1 THEN 0 ELSE DaysBeforeMonth(y, m - 1) + DaysInMonth(y, m - 1)

DaysBeforeYear(y) ==
    (y - 1) * 365 + ((y - 1) \div 4) - ((y - 1) \div 100) + ((y - 1) \div 400)

\* date.fromordinal(n): <<year, month, day>>
FromOrdinal(n) ==
    LET guess == (((n - 1) * 400) \div 146097) + 1
        y == CHOOSE c \in (guess - 1) .. (guess + 1) :
                DaysBeforeYear(c) < n /\ n <= DaysBeforeYear(c + 1)
        k == n - DaysBeforeYear(y)
        m == CHOOSE c \in 1..12 :
                DaysBeforeMonth(y, c) < k /\ k <= DaysBeforeMonth(y, c) + DaysInMonth(y, c)
    IN  <<y, m, k - DaysBeforeMonth(y, m)>>

\* date(y, m, d).toordinal()
Ordinal(y, m, d) == DaysBeforeYear(y) + DaysBeforeMonth(y, m) + d

\* date.weekday(): Monday is 0
Weekday(n) == (n + 6) % 7

Pad2(k) == IF k < 10 THEN "0" \o ToString(k) ELSE ToString(k)

\* The days around the entries' dates, converted once.
Calendar == (Ordinal(2024, 1, 1)) .. (Ordinal(2024, 4, 30))

CivilTable == [n \in Calendar |-> FromOrdinal(n)]

Civil(n) == IF n \in Calendar THEN CivilTable[n] ELSE FromOrdinal(n)

strftime(n, fmt) ==
    LET DayNames == <<"Monday", "Tuesday", "Wednesday", "Thursday", "Friday",
                      "Saturday", "Sunday">>
        MonthNames == <<"January", "February", "March", "April", "May", "June",
                        "July", "August", "September", "October", "November",
                        "December">>
        MonthAbbr == <<"Jan", "Feb", "Mar", "Apr", "May", "Jun", "Jul", "Aug",
                       "Sep", "Oct", "Nov", "Dec">>
        Format(c) ==
            CASE fmt = "%m/%d" -> Pad2(c[2]) \o "/" \o Pad2(c[3])
              [] fmt = "%Y-%m-%d" ->
                    ToString(c[1]) \o "-" \o Pad2(c[2]) \o "-" \o Pad2(c[3])
              [] fmt = "%b %d" -> MonthAbbr[c[2]] \o " " \o Pad2(c[3])
              [] fmt = "%A, %B %d" ->
                    DayNames[Weekday(n) + 1] \o ", " \o MonthNames[c[2]] \o " "
                        \o Pad2(c[3])
    IN  Format(Civil(n))

\* a datetime: the ordinal of its day and its second of the day
Datetime(day, time) == [day |-> day, time |-> time]

\* the value of the ASCII digit c, or -1 when c is not one
DigitOf(c) ==
    CASE c = "0" -> 0 [] c = "1" -> 1 [] c = "2" -> 2 [] c = "3" -> 3 [] c = "4" -> 4
      [] c = "5" -> 5 [] c = "6" -> 6 [] c = "7" -> 7 [] c = "8" -> 8 [] c = "9" -> 9
      [] OTHER -> -1

\* the texts '<month>-<day>' that the pattern of '%m-%d' matches whole, each
\* with its <<month, day>>: %m matches 1[0-2]|0[1-9]|[1-9] and %d matches
\* 3[01]|[12]\d|0[1-9]|[1-9]| [1-9]
MonthDayTexts ==
    LET MonthTexts == {<<Pad2(m), m>> : m \in 1..12} \cup {<<ToString(m), m>> : m \in 1..9}
        DayTexts == {<<Pad2(d), d>> : d \in 1..31} \cup {<<ToString(d), d>> : d \in 1..9}
                    \cup {<<" " \o ToString(d), d>> : d \in 1..9}
        all == {<<m[1] \o "-" \o d[1], m[2], d[2]>> : m \in MonthTexts, d \in DayTexts}
    IN  [text \in {t[1] : t \in all} |->
            LET t == CHOOSE x \in all : x[1] = text IN <<t[2], t[3]>>]

\* datetime.strptime(s, '%Y-%m-%d'): four digits, '-', a month, '-', a day and
\* nothing more; ValueError when s does not match, when text remains, when the
\* year is 0 or the day is not a day of the month
strptime(s) ==
    IF Len(s) < 8 \/ Len(s) > 10 THEN Raise("ValueError")
    ELSE LET digits == [i \in 1..4 |-> DigitOf(SubSeq(s, i, i))]
             year == 1000 * digits[1] + 100 * digits[2] + 10 * digits[3] + digits[4]
             rest == SubSeq(s, 6, Len(s))
         IN  IF (\E i \in 1..4 : digits[i] = -1) \/ SubSeq(s, 5, 5) # "-"
                \/ rest \notin DOMAIN MonthDayTexts \/ year = 0
             THEN Raise("ValueError")
             ELSE LET t == MonthDayTexts[rest]
                  IN  IF t[2] > DaysInMonth(year, t[1]) THEN Raise("ValueError")
                      ELSE Ok(Datetime(Ordinal(year, t[1], t[2]), 0))

-----------------------------------------------------------------------------
(* ReportGenerator.TEMPLATES.  An item template is the list of its literal *)
(* pieces and its two replacement fields.                                  *)

TEMPLATES ==
    [n \in {"classic", "classic_clean", "bold", "modern", "professional",
            "professional_clean", "compact"} |->
        CASE n = "classic" ->
                [date_format |-> "%m/%d", show_header |-> TRUE,
                 html_item |-> <<"<li><strong>", "{date}", "</strong> - ",
                                 "{description}", "</li>">>,
                 text_item |-> <<"  * ", "{date}", " - ", "{description}">>]
          [] n = "classic_clean" ->
                [date_format |-> "%m/%d", show_header |-> FALSE,
                 html_item |-> <<"<li><strong>", "{date}", "</strong> - ",
                                 "{description}", "</li>">>,
                 text_item |-> <<"  * ", "{date}", " - ", "{description}">>]
          [] n = "bold" ->
                [date_format |-> "%Y-%m-%d", show_header |-> TRUE,
                 html_item |-> <<"<li><b style=\"color:var(--primary-color)\">",
                                 "{date}", "</b>: ", "{description}", "</li>">>,
                 text_item |-> <<"  * **", "{date}", "**: ", "{description}">>]
          [] n = "modern" ->
                [date_format |-> "%b %d", show_header |-> TRUE,
                 html_item |-> <<"<li>", "{description}",
                                 " <em style=\"color:var(--text-secondary)\">(",
                                 "{date}", ")</em></li>">>,
                 text_item |-> <<"  * ", "{description}", " (", "{date}", ")">>]
          [] n = "professional" ->
                [date_format |-> "%A, %B %d", show_header |-> TRUE,
                 html_item |-> <<"<li><span class=\"badge\" style=\"background:#64748b\">",
                                 "{date}", "</span> ", "{description}", "</li>">>,
                 text_item |-> <<"  * [", "{date}", "] ", "{description}">>]
          [] n = "professional_clean" ->
                [date_format |-> "%A, %B %d", show_header |-> FALSE,
                 html_item |-> <<"<li><span class=\"badge\" style=\"background:#64748b\">",
                                 "{date}", "</span> ", "{description}", "</li>">>,
                 text_item |-> <<"  * [", "{date}", "] ", "{description}">>]
          [] n = "compact" ->
                [date_format |-> "%m/%d", show_header |-> FALSE,
                 html_item |-> <<"<li><small style=\"color:var(--text-secondary)\">",
                                 "{date}", "</small> ", "{description}", "</li>">>,
                 text_item |-> <<"  - ", "{date}", " ", "{description}">>]]

\* TEMPLATES.get(template_name, TEMPLATES['classic'])
TemplateGet(template_name) ==
    IF template_name \in DOMAIN TEMPLATES THEN TEMPLATES[template_name]
    ELSE TEMPLATES["classic"]

\* item.format(date=date_str, description=description)
RECURSIVE ItemFormat(_, _, _)
ItemFormat(item, date_str, description) ==
    IF item = <<>> THEN ""
    ELSE (CASE Head(item) = "{date}" -> date_str
            [] Head(item) = "{description}" -> description
            [] OTHER -> Head(item))
         \o ItemFormat(Tail(item), date_str, description)

\* sep.join(parts)
RECURSIVE Join(_, _)
Join(sep, parts) ==
    IF parts = <<>> THEN ""
    ELSE IF Len(parts) = 1 THEN parts[1]
    ELSE parts[1] \o sep \o Join(sep, Tail(parts))

\* "=" * 60 and "-" * 60
Rule(ch) ==
    LET x10 == ch \o ch \o ch \o ch \o ch \o ch \o ch \o ch \o ch \o ch
    IN  x10 \o x10 \o x10 \o x10 \o x10 \o x10

\* the concatenation of a list of lists
RECURSIVE Flatten(_)
Flatten(ss) == IF ss = <<>> THEN <<>> ELSE Head(ss) \o Flatten(Tail(ss))

-----------------------------------------------------------------------------
(* ReportGenerator: the functions without side effects.                    *)

Modes == {"weekly", "biweekly", "monthly"}

\* the range when every window starts as many days back as it has days
get_date_range_exclusive(mode, now_day) ==
    CASE mode = "weekly" -> <<now_day - 7, now_day>>
      [] mode = "biweekly" -> <<now_day - 14, now_day>>
      [] mode = "monthly" -> <<now_day - 30, now_day>>

\* get_date_range(mode) for the modes it knows; any other mode raises ValueError
get_date_range(mode, now_day) ==
    CASE mode = "weekly" -> <<now_day - 6, now_day>>
      [] mode = "biweekly" -> <<now_day - 13, now_day>>
      [] mode = "monthly" -> <<now_day - 30, now_day>>

\* bool(mode) of a mode that is None or a str: None and "" are false
Truthy(mode) == mode # None /\ mode # Text("")

\* the keys of grouped, in the order dict keeps them: first appearance in logs
RECURSIVE GroupKeys(_)
GroupKeys(ls) ==
    IF ls = <<>> THEN <<>>
    ELSE LET init == GroupKeys(SubSeq(ls, 1, Len(ls) - 1))
             p == ls[Len(ls)].project
         IN  IF \E i \in 1..Len(init) : init[i] = p THEN init ELSE Append(init, p)

\* a sort by date, descending, that reverses the entries of one date
RECURSIVE SortByDateDescReversing(_)
SortByDateDescReversing(ls) ==
    IF ls = <<>> THEN <<>>
    ELSE LET init == SortByDateDescReversing(SubSeq(ls, 1, Len(ls) - 1))
             x == ls[Len(ls)]
             k == Cardinality({i \in 1..Len(init) : init[i].date > x.date})
         IN  SubSeq(init, 1, k) \o <<x>> \o SubSeq(init, k + 1, Len(init))

\* list.sort(key=lambda x: x.date, reverse=True): stable, so entries of one date
\* keep the order they had
RECURSIVE SortByDateDesc(_)
SortByDateDesc(ls) ==
    IF ls = <<>> THEN <<>>
    ELSE LET init == SortByDateDesc(SubSeq(ls, 1, Len(ls) - 1))
             x == ls[Len(ls)]
             k == Cardinality({i \in 1..Len(init) : init[i].date >= x.date})
         IN  SubSeq(init, 1, k) \o <<x>> \o SubSeq(init, k + 1, Len(init))

ProjectLogs(ls, p) == SelectSeq(ls, LAMBDA e : e.project = p)

\* group_by_project(logs): project -> its entries, sorted
group_by_project(ls) ==
    [p \in {ls[i].project : i \in 1..Len(ls)} |-> SortByDateDesc(ProjectLogs(ls, p))]

\* the keys in descending order
RECURSIVE SortedKeysDescending(_)
SortedKeysDescending(S) ==
    IF S = {} THEN <<>>
    ELSE LET m == CHOOSE x \in S : \A y \in S \ {x} : StrLess(y, x)
         IN  <<m>> \o SortedKeysDescending(S \ {m})

\* sorted(grouped.keys())
RECURSIVE SortedKeys(_)
SortedKeys(S) ==
    IF S = {} THEN <<>>
    ELSE LET m == CHOOSE x \in S : \A y \in S \ {x} : StrLess(x, y)
         IN  <<m>> \o SortedKeys(S \ {m})

SummaryThreshold == 5
RecentMax == 10

\* A summary line is <<lead, body>>: lead is its longest prefix of the characters
\* "-*• " (what str.lstrip('-*• ') removes), body the rest.
SummaryText(line) == line[1] \o line[2]

\* summarize_project_logs: the list returned when summarization fails
FallbackLines(project_logs) ==
    LET n == Len(project_logs)
        recent == SubSeq(project_logs, 1, IF n < RecentMax THEN n ELSE RecentMax)
        formatted == [i \in 1..Len(recent) |->
                        <<"", strftime(recent[i].date, "%m/%d") \o " - "
                                \o recent[i].description>>]
    IN  IF n > RecentMax
        THEN Append(formatted, <<"", "... and " \o ToString(n - RecentMax) \o " more entries.">>)
        ELSE formatted

NoSummaries == <<>>

\* the period header of the text report
TextHeader(mode, now_day) ==
    LET r == get_date_range(mode, now_day)
    IN  <<"Report Period: " \o strftime(r[1], "%m/%d") \o " - " \o strftime(r[2], "%m/%d"),
          Rule("="), "">>

TextHeaderShown(mode, template) == Truthy(mode)

\* one project's block of the text report
TextProject(project, project_logs, summaries, template) ==
    <<"Project: " \o project, Rule("-")>>
    \o (IF project \in DOMAIN summaries
        THEN <<"(AI Summary)">>
             \o [i \in 1..Len(summaries[project]) |->
                    "  " \o SummaryText(summaries[project][i])]
        ELSE [i \in 1..Len(project_logs) |->
                ItemFormat(template.text_item,
                           strftime(project_logs[i].date, template.date_format),
                           project_logs[i].description)])
    \o <<"">>

\* format_report up to final_text: the list report_lines
report_lines(ls, mode, summaries, template_name, now_day) ==
    LET grouped == group_by_project(ls)
        template == TemplateGet(template_name)
        keys == SortedKeys(DOMAIN grouped)
    IN  (IF TextHeaderShown(mode, template) THEN TextHeader(TextOf(mode), now_day)
         ELSE <<>>)
        \o Flatten([i \in 1..Len(keys) |->
                      TextProject(keys[i], grouped[keys[i]], summaries, template)])

\* format_report when the period is worked out before the list is tested
format_report_period_first(ls, mode, summaries, template_name, now_day) ==
    IF Truthy(mode) /\ TextOf(mode) \notin Modes THEN Raise("ValueError")
    ELSE IF ls = <<>> THEN Ok(<<"No logs found for this period.">>)
    ELSE Ok(report_lines(ls, mode, summaries, template_name, now_day))

\* format_report when summaries is empty, and up to the call of improve_report_text
\* when it is not
format_report(ls, mode, summaries, template_name, now_day) ==
    IF ls = <<>> THEN Ok(<<"No logs found for this period.">>)
    ELSE IF Truthy(mode) /\ TextOf(mode) \notin Modes THEN Raise("ValueError")
    ELSE Ok(report_lines(ls, mode, summaries, template_name, now_day))

HtmlHeader(mode, now_day) ==
    LET r == get_date_range(mode, now_day)
    IN  <<"<p><strong>Report Period:</strong> " \o strftime(r[1], "%m/%d") \o " - "
            \o strftime(r[2], "%m/%d") \o "</p>">>

HtmlHeaderShown(mode, template) == Truthy(mode)

HtmlProject(project, project_logs, summaries, template) ==
    <<"<h4>" \o project \o "</h4>">>
    \o (IF project \in DOMAIN summaries
        THEN <<"<p><em>(AI Summary)</em></p>", "<ul>">>
             \o [i \in 1..Len(summaries[project]) |->
                    "<li>" \o summaries[project][i][2] \o "</li>"]
             \o <<"</ul>">>
        ELSE <<"<ul>">>
             \o [i \in 1..Len(project_logs) |->
                    ItemFormat(template.html_item,
                               strftime(project_logs[i].date, template.date_format),
                               project_logs[i].description)]
             \o <<"</ul>">>)

\* format_report_html: the list html_parts
html_parts(ls, mode, summaries, template_name, now_day) ==
    LET grouped == group_by_project(ls)
        template == TemplateGet(template_name)
        keys == SortedKeys(DOMAIN grouped)
    IN  (IF HtmlHeaderShown(mode, template) THEN HtmlHeader(TextOf(mode), now_day)
         ELSE <<>>)
        \o Flatten([i \in 1..Len(keys) |->
                      HtmlProject(keys[i], grouped[keys[i]], summaries, template)])

format_report_html(ls, mode, summaries, template_name, now_day) ==
    IF ls = <<>> THEN Ok(<<"<p>No logs found for this period.</p>">>)
    ELSE IF Truthy(mode) /\ TextOf(mode) \notin Modes THEN Raise("ValueError")
    ELSE Ok(html_parts(ls, mode, summaries, template_name, now_day))

\* the str each function returns
ReportText(lines) == Join("\n", lines)
ReportHtml(parts) == Join("", parts)

-----------------------------------------------------------------------------
(* Direct calls of format_report and format_report_html (the command front *)
(* end, tests): any list of entries, in any order.                         *)

Today0 == Ordinal(2024, 3, 15)

\* the description identifies the creation second, so that the order of two
\* entries of one date shows in the rendered lines
Descriptions == <<"fix login", "write docs">>

\* <<activity date, creation second>> of the entries given to direct calls: two
\* entries of one date, and one of an earlier date
Stamps ==
    {<<Ordinal(2024, 3, 15), 1>>, <<Ordinal(2024, 3, 15), 2>>, <<Ordinal(2024, 3, 9), 1>>}

EntryUniverse ==
    {[id |-> 0, project |-> p, description |-> Descriptions[s[2]], date |-> s[1],
      created_at |-> s[2]] : p \in {"Web", "web", "api"}, s \in Stamps}

CallLists == UNION {[1..n -> EntryUniverse] : n \in 0..MaxLogs}

CallModes == {None, Text("weekly"), Text("yearly")}

CallTemplates == DOMAIN TEMPLATES \cup {"fancy"}

NoCall ==
    [logs |-> <<>>, mode |-> None, template_name |-> "classic",
     text |-> NotCalled, html |-> NotCalled]

InitStore ==
    /\ logs = <<>>
    /\ sqlite_sequence = 0
    /\ settings = <<>>
    /\ today = Today0
    /\ clock = 0
    /\ cline = FALSE
    /\ files = <<>>
    /\ req = <<>>

InitFormat ==
    /\ InitStore
    /\ call \in [logs : CallLists, mode : CallModes, template_name : CallTemplates,
                 text : {NotCalled}, html : {NotCalled}]

\* format_report(logs, mode, None, template_name=template_name), called after
\* format_report_html as the report route does
CallFormatReport ==
    /\ call.html # NotCalled
    /\ call.text = NotCalled
    /\ call' = [call EXCEPT !.text =
                    format_report(call.logs, call.mode, NoSummaries,
                                  call.template_name, today)]
    /\ UNCHANGED <<logs, settings, today, clock, cline, files, req, sqlite_sequence>>

\* format_report_html(logs, mode, None, template_name)
CallFormatReportHtml ==
    /\ call.html = NotCalled
    /\ call' = [call EXCEPT !.html =
                    format_report_html(call.logs, call.mode, NoSummaries,
                                       call.template_name, today)]
    /\ UNCHANGED <<logs, settings, today, clock, cline, files, req, sqlite_sequence>>

NextFormat == CallFormatReport \/ CallFormatReportHtml

SpecFormat == InitFormat /\ [][NextFormat]_vars

-----------------------------------------------------------------------------
(* Database: the reads the report route makes.                             *)

\* Database.get_setting(key, default): the value stored, a str, or default, which
\* is None or a str
get_setting(key, default) ==
    IF key \in DOMAIN settings THEN Text(settings[key]) ELSE default

\* ORDER BY date DESC, created_at DESC: column date is TEXT and is compared as
\* text; rows equal in both stay in rowid order
RECURSIVE OrderByDateCreatedDesc(_)
OrderByDateCreatedDesc(rows) ==
    IF rows = <<>> THEN <<>>
    ELSE LET init == OrderByDateCreatedDesc(SubSeq(rows, 1, Len(rows) - 1))
             x == rows[Len(rows)]
             k == Cardinality({i \in 1..Len(init) :
                    \/ StrLess(x.date, init[i].date)
                    \/ init[i].date = x.date /\ init[i].created_at >= x.created_at})
         IN  SubSeq(init, 1, k) \o <<x>> \o SubSeq(init, k + 1, Len(init))

\* an absent date bound (None): no date has ordinal 0
NoDate == 0

\* Database.get_logs(start_date, end_date): the bounds given are formatted with
\* strftime('%Y-%m-%d') and compared with column date as text; each row fetched
\* becomes a LogEntry whose date is strptime(row[3], '%Y-%m-%d'), and a text that
\* strptime rejects ends the call with its ValueError
get_logs(start_date, end_date) ==
    LET Selected(from, to) ==
            OrderByDateCreatedDesc(
                SelectSeq(logs, LAMBDA row :
                    /\ (start_date # NoDate => ~StrLess(row.date, from))
                    /\ (end_date # NoDate => ~StrLess(to, row.date))))
        Entries(rows, dates) ==
            IF \E i \in 1..Len(rows) : dates[i].exc # "" THEN Raise("ValueError")
            ELSE Ok([i \in 1..Len(rows) |-> [rows[i] EXCEPT !.date = dates[i].value.day]])
        Parsed(rows) == Entries(rows, [i \in 1..Len(rows) |-> strptime(rows[i].date)])
    IN  Parsed(Selected(
            IF start_date # NoDate THEN strftime(start_date, "%Y-%m-%d") ELSE "",
            IF end_date # NoDate THEN strftime(end_date, "%Y-%m-%d") ELSE ""))

\* Database.get_all_projects: SELECT DISTINCT project FROM logs ORDER BY project
get_all_projects == SortedKeys({logs[i].project : i \in 1..Len(logs)})

-----------------------------------------------------------------------------
(* Direct calls made twice, the date changing or not between the two, and  *)
(* direct calls of get_date_range.                                         *)

\* the days of the calls: mid-month, the first of a month, a leap day, and the
\* last day of January, thirty days after the first
RepeatDays ==
    {Ordinal(2024, 3, 15), Ordinal(2024, 3, 1), Ordinal(2024, 2, 29), Ordinal(2024, 1, 31)}

RepeatLists ==
    {<<>>} \cup {<<e>> : e \in EntryUniverse}
    \cup {<<e, f>> : e \in {x \in EntryUniverse : x.project = "Web"},
                    f \in {x \in EntryUniverse : x.project = "api" /\ x.created_at = 1}}

RepeatModes ==
    {None, Text(""), Text("weekly"), Text("biweekly"), Text("monthly"), Text("yearly")}

RepeatTemplates == {"classic", "classic_clean", "compact", "fancy"}

\* the summaries argument: None, or a mapping for a project; the mapping is given
\* with the empty list only, where format_report returns before it reads it
RepeatSummaries == {NoSummaries, [p \in {"Web"} |-> << <<"- ", "did things">> >>]}

InitRepeat ==
    /\ logs = <<>>
    /\ sqlite_sequence = 0
    /\ settings = <<>>
    /\ today \in RepeatDays
    /\ clock = 0
    /\ cline = FALSE
    /\ files = <<>>
    /\ req = <<>>
    /\ call \in {c \in [logs : RepeatLists, mode : RepeatModes,
                         template_name : RepeatTemplates, summaries : RepeatSummaries,
                         day : {0}, range_day : {0}, range : {NotCalled},
                         text : {NotCalled}, html : {NotCalled},
                         text2 : {NotCalled}, html2 : {NotCalled}] :
                        c.summaries # NoSummaries => c.logs = <<>>}

\* format_report_html(...) with the arguments of call; it reads datetime.now()
RenderHtml ==
    /\ call.html = NotCalled
    /\ call' = [call EXCEPT
                    !.day = today,
                    !.html = format_report_html(call.logs, call.mode, call.summaries,
                                                call.template_name, today)]
    /\ UNCHANGED <<logs, settings, today, clock, cline, files, req, sqlite_sequence>>

\* then format_report(...) with the same arguments; it reads datetime.now() again
RenderText ==
    /\ call.html # NotCalled /\ call.text = NotCalled
    /\ call' = [call EXCEPT
                    !.text = format_report(call.logs, call.mode, call.summaries,
                                           call.template_name, today)]
    /\ UNCHANGED <<logs, settings, today, clock, cline, files, req, sqlite_sequence>>

\* midnight passes between two calls, once: datetime.now() is a day later
Midnight ==
    /\ call.html # NotCalled /\ call.text2 = NotCalled
    /\ today = call.day
    /\ today' = today + 1
    /\ UNCHANGED <<logs, settings, clock, cline, files, req, call, sqlite_sequence>>

\* format_report_html again, with the same arguments
RenderHtmlAgain ==
    /\ call.text # NotCalled /\ call.html2 = NotCalled
    /\ call' = [call EXCEPT
                    !.html2 = format_report_html(call.logs, call.mode, call.summaries,
                                                 call.template_name, today)]
    /\ UNCHANGED <<logs, settings, today, clock, cline, files, req, sqlite_sequence>>

\* format_report again, with the same arguments
RenderTextAgain ==
    /\ call.html2 # NotCalled /\ call.text2 = NotCalled
    /\ call' = [call EXCEPT
                    !.text2 = format_report(call.logs, call.mode, call.summaries,
                                            call.template_name, today)]
    /\ UNCHANGED <<logs, settings, today, clock, cline, files, req, sqlite_sequence>>

\* get_date_range(mode): None is not a mode name, so it is rejected like any
\* unknown name
CallGetDateRange ==
    /\ call.range = NotCalled
    /\ call' = [call EXCEPT
                    !.range_day = today,
                    !.range = IF call.mode # None /\ TextOf(call.mode) \in Modes
                              THEN Ok(get_date_range(TextOf(call.mode), today))
                              ELSE Raise("ValueError")]
    /\ UNCHANGED <<logs, settings, today, clock, cline, files, req, sqlite_sequence>>

NextRepeat ==
    \/ RenderHtml
    \/ RenderText
    \/ Midnight
    \/ RenderHtmlAgain
    \/ RenderTextAgain
    \/ CallGetDateRange

SpecRepeat == InitRepeat /\ [][NextRepeat]_vars

-----------------------------------------------------------------------------
(* The report route, create_app.report, and the external calls it makes.   *)
(* A request is a thread of the server; its locals are req[r].             *)

Requests == DOMAIN req

Idle ==
    [pc |-> "idle", mode |-> Unbound, summarize |-> FALSE,
     template_name |-> "classic", logs |-> <<>>, pending |-> <<>>,
     summaries |-> <<>>, fn |-> Unbound, project |-> Unbound,
     output_file |-> Unbound,
     start |-> 0, exists |-> FALSE, ret |-> <<>>, final_text |-> <<>>, wake |-> 0,
     html |-> NotCalled, text |-> NotCalled, index |-> NotCalled, status |-> 0,
     calls |-> <<>>, served |-> 0]

\* summarize = enabled, whether or not the tool is installed
SummarizeSettingOnly(cline_avail, enabled) == enabled

\* app.report: summarize = cline_avail and enabled
Summarize(cline_avail, enabled) == cline_avail /\ enabled

\* generate_summaries: "if not summarize or mode != 'monthly': return {}"
Enriches(summarize, mode) == summarize /\ mode = "monthly"

\* len(project_logs) >= 5
SummarizedFromThreshold(project_logs) == Len(project_logs) >= SummaryThreshold

\* generate_summaries: "if len(project_logs) > 5"
Summarized(project_logs) == Len(project_logs) > SummaryThreshold

\* format_report: improve_report_text is called whatever summaries holds
ImprovesAlways(ls, summaries) == ls # <<>>

\* format_report: "if not logs: return ..." and "if summaries: return
\* improve_report_text(final_text, ...)"
Improves(ls, summaries) == ls # <<>> /\ DOMAIN summaries # {}

\* summarize_project_logs: output_file
SummaryPath(project, t) ==
    "summary_" \o ReplaceSpaces(project) \o "_" \o ToString(t) \o ".txt"

\* improve_report_text: output_file
ImprovedPath(t) == "improved_report_" \o ToString(t) \o ".txt"

\* what the tool writes when it does the work it was asked for
SummaryContent == << <<"- ", "03/01-03/15 - Shipped the release">> >>
ImprovedContent == <<"Polished report">>

\* how a run of the tool ends: <<how subprocess.run returns, what the tool wrote>>
Outcomes ==
    {<<"ok", "content">>, <<"ok", "empty">>, <<"ok", "nothing">>,
     <<"CalledProcessError", "nothing">>, <<"CalledProcessError", "content">>,
     <<"FileNotFoundError", "nothing">>,
     <<"TimeoutExpired", "nothing">>, <<"TimeoutExpired", "content">>}

\* GET /report/<mode>: app.report up to the loop of generate_summaries; the
\* ValueError of get_logs is not caught, and the request ends with status 500
Report(r, mode) ==
    /\ req[r].pc = "idle"
    /\ req' = [req EXCEPT ![r] =
        IF mode \notin Modes
        THEN [@ EXCEPT !.pc = "done", !.mode = mode, !.status = 400]
        ELSE LET enabled == get_setting("ai_summary_enabled", None) = Text("true")
                 summarize == IF mode = "monthly" THEN Summarize(cline, enabled)
                              ELSE FALSE
                 range == get_date_range(mode, today)
                 found == get_logs(range[1], range[2])
             IN  IF found.exc # ""
                 THEN [@ EXCEPT !.pc = "done", !.mode = mode,
                                !.summarize = summarize, !.status = 500]
                 ELSE [@ EXCEPT !.mode = mode,
                                !.summarize = summarize,
                                !.template_name =
                                    TextOf(get_setting("report_template", Text("classic"))),
                                !.logs = found.value,
                                !.pending = IF Enriches(summarize, mode)
                                            THEN GroupKeys(found.value) ELSE <<>>,
                                !.pc = "generate"]]
    /\ UNCHANGED <<logs, settings, today, clock, cline, files, call, sqlite_sequence>>

\* generate_summaries: one turn of "for project, project_logs in grouped.items()",
\* up to the call of subprocess.run in summarize_project_logs
Generate(r) ==
    /\ req[r].pc = "generate"
    /\ req' = [req EXCEPT ![r] =
        IF @.pending = <<>> THEN [@ EXCEPT !.pc = "html"]
        ELSE LET p == Head(@.pending)
             IN  IF Summarized(group_by_project(@.logs)[p])
                 THEN [@ EXCEPT !.pending = Tail(@),
                                !.fn = "summarize",
                                !.project = p,
                                !.output_file = SummaryPath(p, clock),
                                !.start = clock,
                                !.pc = "run"]
                 ELSE [@ EXCEPT !.pending = Tail(@)]]
    /\ UNCHANGED <<logs, settings, today, clock, cline, files, call, sqlite_sequence>>

\* the value the function returns when the tool fails
Fallback(q) ==
    IF q.fn = "summarize" THEN FallbackLines(group_by_project(q.logs)[q.project])
    ELSE q.final_text

\* subprocess.run(['cline', prompt, ...], check=True, timeout=...): the tool runs,
\* writes output_file or not, and the call returns or raises
Run(r, outcome) ==
    /\ req[r].pc = "run"
    /\ files' = IF outcome[2] = "nothing" THEN files
                ELSE [f \in DOMAIN files \cup {req[r].output_file} |->
                        IF f = req[r].output_file
                        THEN [writer |-> r,
                              content |-> IF outcome[2] = "empty" THEN <<>>
                                          ELSE IF req[r].fn = "summarize"
                                          THEN SummaryContent
                                          ELSE ImprovedContent]
                        ELSE files[f]]
    /\ req' = [req EXCEPT ![r] =
        [@ EXCEPT !.calls = Append(@, [fn |-> req[r].fn, project |-> req[r].project,
                                       output_file |-> req[r].output_file,
                                       outcome |-> outcome[1], wrote |-> outcome[2],
                                       start |-> req[r].start, end |-> clock,
                                       result |-> "running"]),
                  !.ret = Fallback(req[r]),
                  !.pc = IF outcome[1] = "ok" THEN "read" ELSE "finally"]]
    /\ UNCHANGED <<logs, settings, today, clock, cline, call, sqlite_sequence>>

\* "with open(output_file, 'r') as f: summary = f.read().strip()" and the test of
\* what was read
Read(r) ==
    /\ req[r].pc = "read"
    /\ req' = [req EXCEPT ![r] =
        [@ EXCEPT !.ret = IF /\ req[r].output_file \in DOMAIN files
                             /\ files[req[r].output_file].content # <<>>
                          THEN files[req[r].output_file].content
                          ELSE Fallback(req[r]),
                  !.pc = "finally"]]
    /\ UNCHANGED <<logs, settings, today, clock, cline, files, call, sqlite_sequence>>

\* app.report: "return render_template('index.html', logs=db.get_logs(),
\* projects=db.get_all_projects(), report=report_html, report_text=report_text,
\* report_mode=mode)": the store is read again, without a range, and the
\* ValueError of get_logs is not caught, so that the request ends with status
\* 500; index is what the template is given
RenderTemplate(q, text) ==
    LET Rendered(found) ==
            [q EXCEPT !.text = text,
                      !.index = IF found.exc # "" THEN Raise(found.exc)
                                ELSE Ok([logs |-> found.value,
                                         projects |-> get_all_projects]),
                      !.status = IF found.exc # "" THEN 500 ELSE 200,
                      !.pc = "done"]
    IN  Rendered(get_logs(NoDate, NoDate))

\* the state of a request when summarize_project_logs or improve_report_text has
\* returned (exc = ""), or has raised exc: generate_summaries stores the list
\* returned and sleeps, or logs the exception and goes on; format_report returns
\* the text to app.report, which renders the page, or lets the exception through
Returned(q, exc) ==
    LET ended == [q EXCEPT !.calls[Len(q.calls)].result =
                                IF exc = "" THEN "returned" ELSE "raised",
                           !.calls[Len(q.calls)].end = clock]
    IN  IF q.fn = "summarize"
        THEN IF exc = ""
             THEN [ended EXCEPT !.summaries =
                        [k \in DOMAIN q.summaries \cup {q.project} |->
                            IF k = q.project THEN q.ret ELSE q.summaries[k]],
                            !.wake = clock + 2,
                            !.pc = "sleep"]
             ELSE [ended EXCEPT !.pc = "generate"]
        ELSE IF exc = ""
             THEN RenderTemplate(ended, Ok(q.ret))
             ELSE [ended EXCEPT !.text = Raise(exc), !.status = 500, !.pc = "done"]

\* finally: "if os.path.exists(output_file)"
Exists(r) ==
    /\ req[r].pc = "finally"
    /\ req' = [req EXCEPT ![r] =
        IF req[r].output_file \in DOMAIN files
        THEN [@ EXCEPT !.pc = "remove"]
        ELSE Returned(@, "")]
    /\ UNCHANGED <<logs, settings, today, clock, cline, files, call, sqlite_sequence>>

\* the directory when nothing is removed
RemovedNothing(path) == files

\* the directory after os.remove(path)
Removed(path) == [f \in DOMAIN files \ {path} |-> files[f]]

\* finally: "os.remove(output_file)", which raises when the file is gone
Remove(r) ==
    /\ req[r].pc = "remove"
    /\ files' = Removed(req[r].output_file)
    /\ req' = [req EXCEPT ![r] =
        IF req[r].output_file \in DOMAIN files
        THEN Returned(@, "")
        ELSE Returned(@, "FileNotFoundError")]
    /\ UNCHANGED <<logs, settings, today, clock, cline, call, sqlite_sequence>>

\* generate_summaries: time.sleep(2)
Sleep(r) ==
    /\ req[r].pc = "sleep"
    /\ clock' = IF clock < req[r].wake THEN req[r].wake ELSE clock
    /\ req' = [req EXCEPT ![r] = [@ EXCEPT !.pc = "generate"]]
    /\ UNCHANGED <<logs, settings, today, cline, files, call, sqlite_sequence>>

\* app.report: report_html = format_report_html(logs, mode, summaries, template_name)
FormatReportHtml(r) ==
    /\ req[r].pc = "html"
    /\ req' = [req EXCEPT ![r] =
        [@ EXCEPT !.html = format_report_html(req[r].logs, Text(req[r].mode),
                                              req[r].summaries,
                                              req[r].template_name, today),
                  !.pc = "text"]]
    /\ UNCHANGED <<logs, settings, today, clock, cline, files, call, sqlite_sequence>>

\* app.report: report_text = format_report(logs, mode, summaries, ...), up to the
\* call of subprocess.run in improve_report_text when summaries is not empty,
\* and to the end of the route when it is
FormatReport(r) ==
    /\ req[r].pc = "text"
    /\ req' = [req EXCEPT ![r] =
        LET res == format_report(@.logs, Text(@.mode), @.summaries, @.template_name,
                                 today)
        IN  IF Improves(@.logs, @.summaries)
            THEN [@ EXCEPT !.final_text = res.value,
                           !.fn = "improve",
                           !.project = Unbound,
                           !.output_file = ImprovedPath(clock),
                           !.start = clock,
                           !.pc = "run"]
            ELSE RenderTemplate(@, res)]
    /\ UNCHANGED <<logs, settings, today, clock, cline, files, call, sqlite_sequence>>

\* the response is sent, and the thread takes the next request
Respond(r) ==
    /\ req[r].pc = "done"
    /\ req[r].served + 1 < MaxRequests
    /\ req' = [req EXCEPT ![r] = [Idle EXCEPT !.served = req[r].served + 1]]
    /\ UNCHANGED <<logs, settings, today, clock, cline, files, call, sqlite_sequence>>

\* a second passes
Tick ==
    /\ clock < MaxClock
    /\ clock' = clock + 1
    /\ UNCHANGED <<logs, settings, today, cline, files, req, call, sqlite_sequence>>


-----------------------------------------------------------------------------
(* The server: the store it starts with, and its requests.                 *)

\* Row i of a store: its date, stored as text, is spread over the last 23 days,
\* its creation second is its rowid.
Row(i, project) ==
    [id |-> i, project |-> project, description |-> "task " \o ToString(i),
     date |-> strftime(Today0 - ((7 * i) % 23), "%Y-%m-%d"), created_at |-> i]

\* a store of a entries of project "my app" followed by w entries of "Web"
MakeStore(a, w) ==
    [i \in 1..(a + w) |-> Row(i, IF i <= a THEN "my app" ELSE "Web")]

\* a project is summarized when it has more than SummaryThreshold entries, and
\* its fallback list is cut when it has more than RecentMax; the last store has
\* an entry of the year 999, which add_log stored as '999-01-01'
Stores ==
    {MakeStore(a, w) : a \in {0, SummaryThreshold + 1},
                       w \in {0, SummaryThreshold, SummaryThreshold + 1}}
    \cup {MakeStore(0, RecentMax + 1)}
    \cup {Append(MakeStore(0, SummaryThreshold + 1),
                 [Row(SummaryThreshold + 2, "Web") EXCEPT
                      !.date = strftime(Ordinal(999, 1, 1), "%Y-%m-%d")])}

SettingsChoices ==
    {<<>>,
     [k \in {"ai_summary_enabled"} |-> "true"],
     [k \in {"ai_summary_enabled"} |-> "false"],
     [k \in {"ai_summary_enabled", "report_template"} |->
        IF k = "ai_summary_enabled" THEN "true" ELSE "compact"]}

Init ==
    /\ logs \in Stores
    /\ sqlite_sequence = Len(logs)
    /\ settings \in SettingsChoices
    /\ today = Today0
    /\ clock = 0
    /\ cline \in BOOLEAN
    /\ files = <<>>
    /\ req = [r \in {"r1"} |-> Idle]
    /\ call = NoCall

\* the steps of the server, for requests of the modes in M and tool runs that
\* end as one of O
Serve(M, O) ==
    \/ \E r \in Requests, mode \in M : Report(r, mode)
    \/ \E r \in Requests : Generate(r)
    \/ \E r \in Requests, outcome \in O : Run(r, outcome)
    \/ \E r \in Requests : Read(r)
    \/ \E r \in Requests : Exists(r)
    \/ \E r \in Requests : Remove(r)
    \/ \E r \in Requests : Sleep(r)
    \/ \E r \in Requests : FormatReportHtml(r)
    \/ \E r \in Requests : FormatReport(r)
    \/ Tick

\* the modes requested: the three of the route and one it rejects
Next ==
    \/ Serve(Modes \cup {"daily"}, Outcomes)
    \/ \E r \in Requests : Respond(r)

Spec == Init /\ [][Next]_vars

\* Two monthly requests served at once, for a store with one summarized project,
\* with summaries enabled and the tool installed; the tool writes what it was
\* asked for, writes nothing, or runs out of time.
ConcurrentOutcomes ==
    {<<"ok", "content">>, <<"ok", "nothing">>, <<"TimeoutExpired", "nothing">>}

InitConcurrent ==
    /\ logs = MakeStore(0, SummaryThreshold + 1)
    /\ sqlite_sequence = Len(logs)
    /\ settings = [k \in {"ai_summary_enabled"} |-> "true"]
    /\ today = Today0
    /\ clock = 0
    /\ cline = TRUE
    /\ files = <<>>
    /\ req = [r \in {"r1", "r2"} |-> Idle]
    /\ call = NoCall

NextConcurrent == Serve({"monthly"}, ConcurrentOutcomes)

SpecConcurrent == InitConcurrent /\ [][NextConcurrent]_vars

-----------------------------------------------------------------------------
(* The store and its front ends: the routes of create_app and the commands *)
(* of cli.  call records the last operation: its arguments, what it        *)
(* returned, and the tables before it.                                     *)

MaxRows == 2        \* add_log is called at most MaxRows times

\* datetime.now(): the wall clock is read a second after midnight at the earliest
Now == Datetime(today, clock + 1)

\* log.date.strftime('%Y-%m-%d'), the text stored in column date; %Y of the C
\* library does not pad, so a year below 1000 gives fewer than four digits
StoredDate(date) == strftime(date.day, "%Y-%m-%d")

\* LogEntry(id=None, project=..., description=..., date=...): created_at is the
\* time of construction
LogEntry(project, description, date) ==
    [project |-> project, description |-> description, date |-> date,
     created_at |-> clock]

NoEntry == [project |-> Unbound, description |-> Unbound, date |-> Datetime(0, 0),
            created_at |-> 0]

\* the ids of the rows of table logs
StoredIds == {logs[i].id : i \in 1..Len(logs)}

\* the row inserted when the id is one more than the largest id stored (a
\* column INTEGER PRIMARY KEY without AUTOINCREMENT)
InsertedRowAfterLargestStored(log) ==
    [id |-> (IF logs = <<>> THEN 0
             ELSE CHOOSE m \in StoredIds : \A i \in StoredIds : i <= m) + 1,
     project |-> log.project, description |-> log.description,
     date |-> StoredDate(log.date), created_at |-> log.created_at]

\* Database.add_log: the row inserted; its id is one more than the largest
\* rowid the table ever held
InsertedRow(log) ==
    [id |-> sqlite_sequence + 1, project |-> log.project,
     description |-> log.description, date |-> StoredDate(log.date),
     created_at |-> log.created_at]

\* the rows after update_log when only the row's description is written
UpdatedRowsDescriptionOnly(log_id, project, description, date) ==
    [i \in 1..Len(logs) |->
        IF logs[i].id = log_id
        THEN [logs[i] EXCEPT !.description = description]
        ELSE logs[i]]

\* Database.update_log: UPDATE logs SET project, description, date WHERE id
UpdatedRows(log_id, project, description, date) ==
    [i \in 1..Len(logs) |->
        IF logs[i].id = log_id
        THEN [logs[i] EXCEPT !.project = project, !.description = description,
                             !.date = StoredDate(date)]
        ELSE logs[i]]

\* Database.delete_log: DELETE FROM logs WHERE id
RemainingRows(log_id) == SelectSeq(logs, LAMBDA row : row.id # log_id)

\* rowcount > 0 whenever the table has a row
RowFoundInAnyRow(log_id) == logs # <<>>

\* cursor.rowcount > 0 of update_log and delete_log
RowFound(log_id) == log_id \in StoredIds

\* the last operation, after add_log had returned the ids of returned
OperationAfter(op, front, returned) ==
    [op |-> op, front |-> front, status |-> 0, log |-> NoEntry, id |-> 0,
     log_id |-> 0, ok |-> FALSE, start |-> NoDate, end |-> NoDate, mode |-> None,
     found |-> NotCalled, text |-> NotCalled, returned |-> returned,
     logs0 |-> logs, settings0 |-> settings, sqlite_sequence0 |-> sqlite_sequence]

\* the last operation; returned collects the ids add_log returned before it
Operation(op, front) ==
    OperationAfter(op, front,
                   call.returned \cup (IF call.op = "add_log" /\ call.status = 200
                                       THEN {call.id} ELSE {}))

\* Database.add_log(log): INSERT INTO logs, and the id returned
add_log(log) ==
    /\ logs' = Append(logs, InsertedRow(log))
    /\ sqlite_sequence' = InsertedRow(log).id

\* Database.update_log(log_id, project, description, date)
update_log(log_id, project, description, date) ==
    /\ logs' = UpdatedRows(log_id, project, description, date)
    /\ UNCHANGED sqlite_sequence

\* Database.delete_log(log_id)
delete_log(log_id) ==
    /\ logs' = RemainingRows(log_id)
    /\ UNCHANGED sqlite_sequence

\* POST /add_log with form fields project, description, date, each None (no such
\* field) or a str
AddLog(project, description, date_str) ==
    LET o == Operation("add_log", "http")
        log_date == IF Truthy(date_str) THEN strptime(TextOf(date_str)) ELSE Ok(Now)
        entry == LogEntry(IF Truthy(project) THEN TextOf(project) ELSE "Misc",
                          TextOf(description), log_date.value)
    IN  /\ sqlite_sequence < MaxRows
        /\ IF ~Truthy(description) \/ log_date.exc # ""
           THEN /\ call' = [o EXCEPT !.status = 400]
                /\ UNCHANGED <<logs, sqlite_sequence>>
           ELSE /\ add_log(entry)
                /\ call' = [o EXCEPT !.status = 200, !.log = entry,
                                      !.id = InsertedRow(entry).id]
        /\ UNCHANGED <<settings, today, clock, cline, files, req>>

\* fastrep log -p project -d description [-dt date]: project and description are
\* str, date is None or a str; status is 200 for the lines echoed after add_log
\* and 400 for the error echoed
Log(project, description, date) ==
    LET o == Operation("add_log", "cli")
        log_date == IF Truthy(date) THEN strptime(TextOf(date)) ELSE Ok(Now)
        entry == LogEntry(project, description, log_date.value)
    IN  /\ sqlite_sequence < MaxRows
        /\ IF log_date.exc # ""
           THEN /\ call' = [o EXCEPT !.status = 400]
                /\ UNCHANGED <<logs, sqlite_sequence>>
           ELSE /\ add_log(entry)
                /\ call' = [o EXCEPT !.status = 200, !.log = entry,
                                      !.id = InsertedRow(entry).id]
        /\ UNCHANGED <<settings, today, clock, cline, files, req>>

\* POST /update_log/<log_id>
UpdateLog(log_id, project, description, date_str) ==
    LET o == [Operation("update_log", "http") EXCEPT !.log_id = log_id]
        log_date == IF Truthy(date_str) THEN strptime(TextOf(date_str)) ELSE Ok(Now)
        entry == LogEntry(IF Truthy(project) THEN TextOf(project) ELSE "Misc",
                          TextOf(description), log_date.value)
    IN  /\ IF ~Truthy(description) \/ log_date.exc # ""
           THEN /\ call' = [o EXCEPT !.status = 400]
                /\ UNCHANGED <<logs, sqlite_sequence>>
           ELSE /\ update_log(log_id, entry.project, entry.description, entry.date)
                /\ call' = [o EXCEPT !.log = entry, !.ok = RowFound(log_id),
                                      !.status = IF RowFound(log_id) THEN 200 ELSE 404]
        /\ UNCHANGED <<settings, today, clock, cline, files, req>>

\* POST /delete_log/<log_id>
DeleteLog(log_id) ==
    /\ delete_log(log_id)
    /\ call' = [Operation("delete_log", "http") EXCEPT
                    !.log_id = log_id, !.ok = RowFound(log_id),
                    !.status = IF RowFound(log_id) THEN 200 ELSE 404]
    /\ UNCHANGED <<settings, today, clock, cline, files, req>>

\* fastrep delete -i id [-y]: without -y the command asks, and answer is what it
\* is told; status is 200 for the line echoed after a deletion and 404 for the one
\* echoed when no row was found
Delete(id, confirm, answer) ==
    IF ~confirm /\ ~answer
    THEN /\ call' = [Operation("cancelled", "cli") EXCEPT !.log_id = id]
         /\ UNCHANGED <<logs, sqlite_sequence, settings, today, clock, cline, files, req>>
    ELSE /\ delete_log(id)
         /\ call' = [Operation("delete_log", "cli") EXCEPT
                         !.log_id = id, !.ok = RowFound(id),
                         !.status = IF RowFound(id) THEN 200 ELSE 404]
         /\ UNCHANGED <<settings, today, clock, cline, files, req>>

\* Database.clear_all: DELETE FROM logs
clear_all == logs' = <<>> /\ UNCHANGED sqlite_sequence

\* POST /clear_all
ClearAll ==
    /\ clear_all
    /\ call' = [Operation("clear_all", "http") EXCEPT !.status = 200]
    /\ UNCHANGED <<settings, today, clock, cline, files, req>>

\* fastrep clear [-y]
Clear(confirm, answer) ==
    IF ~confirm /\ ~answer
    THEN /\ call' = Operation("cancelled", "cli")
         /\ UNCHANGED <<logs, sqlite_sequence, settings, today, clock, cline, files, req>>
    ELSE /\ clear_all
         /\ call' = [Operation("clear_all", "cli") EXCEPT !.status = 200]
         /\ UNCHANGED <<settings, today, clock, cline, files, req>>

\* Database.get_logs(start_date, end_date), called directly: found is the list
\* returned or the exception raised
GetLogs(start_date, end_date) ==
    /\ call' = [Operation("get_logs", "db") EXCEPT
                    !.start = start_date, !.end = end_date,
                    !.found = get_logs(start_date, end_date)]
    /\ UNCHANGED <<logs, sqlite_sequence, settings, today, clock, cline, files, req>>

\* fastrep view -m mode [-s start] [-e end]: mode is one of the choices, start
\* and end are None or a str; strptime is not guarded, so its ValueError ends
\* the command before get_logs, and the ValueError of get_logs ends it before
\* format_report
View(mode, start, end) ==
    LET custom == Truthy(start) \/ Truthy(end)
        from == IF Truthy(start) THEN strptime(TextOf(start)) ELSE Ok(Datetime(NoDate, 0))
        to == IF Truthy(end) THEN strptime(TextOf(end)) ELSE Ok(Datetime(NoDate, 0))
        o == [Operation("view", "cli") EXCEPT !.mode = Text(mode)]
    IN  /\ call' =
              IF custom /\ from.exc # "" THEN [o EXCEPT !.text = Raise(from.exc)]
              ELSE IF custom /\ to.exc # "" THEN [o EXCEPT !.text = Raise(to.exc)]
              ELSE LET start_date == IF custom THEN from.value.day
                                     ELSE get_date_range(mode, today)[1]
                       end_date == IF custom THEN to.value.day
                                   ELSE get_date_range(mode, today)[2]
                       found == get_logs(start_date, end_date)
                   IN  [o EXCEPT !.start = start_date, !.end = end_date,
                                 !.found = found,
                                 !.text = IF found.exc # "" THEN Raise(found.exc)
                                          ELSE format_report(
                                                  found.value,
                                                  IF custom THEN None ELSE Text(mode),
                                                  NoSummaries, "classic", today)]
        /\ UNCHANGED <<logs, sqlite_sequence, settings, today, clock, cline, files, req>>

\* the form fields <<project, description, date>> posted to /add_log: None is a
\* field left out, and 'None' a text like any other; the last date is of a year
\* below 1000
Forms ==
    {<<None, Text("write docs"), None>>,
     <<Text("Web"), None, Text("2024-03-10")>>,
     <<Text("Web"), Text("fix login"), Text("10/03/2024")>>,
     <<Text("None"), Text("None"), Text("0999-01-01")>>}
\* the options <<project, description, date>> of the log command
Options ==
    {<<"Misc", "write docs", None>>, <<"", "", Text("2024-3-9")>>,
     <<"Misc", "write docs", Text("tomorrow")>>}
\* the form fields <<project, description, date>> posted to /update_log
Changes ==
    {<<None, Text("write docs"), Text("2024-03-12")>>,
     <<Text("api"), Text(""), Text("2024-03-12")>>,
     <<Text("api"), Text("write docs"), Text("12 March")>>}
LogIds == 1..(MaxRows + 1)
\* <<start_date, end_date>> of direct calls of get_logs
Ranges ==
    {<<NoDate, NoDate>>, <<Ordinal(2024, 3, 10), Ordinal(2024, 3, 12)>>,
     <<Ordinal(2024, 3, 15), Ordinal(2024, 3, 10)>>,
     <<Ordinal(999, 1, 1), NoDate>>, <<NoDate, Ordinal(999, 12, 31)>>}
\* <<mode, start, end>> of the view command
Views ==
    {<<"weekly", None, None>>, <<"monthly", None, Text("2024-03-12")>>,
     <<"weekly", Text("None"), None>>, <<"weekly", Text("0999-01-01"), None>>}
\* <<confirm, answer>> of the delete and clear commands: -y given, or the answer
\* to the question asked
Confirmations == {<<TRUE, FALSE>>, <<FALSE, TRUE>>, <<FALSE, FALSE>>}

InitDatabase ==
    /\ logs = <<>>
    /\ sqlite_sequence = 0
    /\ settings = [k \in {"report_template"} |-> "compact"]
    /\ today = Today0
    /\ clock = MaxClock - 1
    /\ cline = FALSE
    /\ files = <<>>
    /\ req = <<>>
    /\ call = OperationAfter("connect", "db", {})

NextDatabase ==
    \/ \E f \in Forms : AddLog(f[1], f[2], f[3])
    \/ \E o \in Options : Log(o[1], o[2], o[3])
    \/ \E log_id \in LogIds, f \in Changes : UpdateLog(log_id, f[1], f[2], f[3])
    \/ \E log_id \in LogIds : DeleteLog(log_id)
    \/ \E id \in LogIds, c \in Confirmations : Delete(id, c[1], c[2])
    \/ ClearAll
    \/ \E c \in Confirmations : Clear(c[1], c[2])
    \/ \E range \in Ranges : GetLogs(range[1], range[2])
    \/ \E v \in Views : View(v[1], v[2], v[3])
    \/ Tick

SpecDatabase == InitDatabase /\ [][NextDatabase]_vars

-----------------------------------------------------------------------------
(* The settings: Database.set_setting called directly and by the route     *)
(* update_settings, which calls it once for each key it finds in the body, *)
(* each call on a connection of its own with its own commit.  req[r] holds *)
(* the locals of a request; call records the last set_setting and, for     *)
(* each key, the last value given to set_setting.                          *)

\* a Python value of a JSON body, or given as a setting: a string, an integer, a
\* boolean, a list of such values or None
StrValue(s) == [kind |-> "str", s |-> s, n |-> 0, items |-> <<>>]
IntValue(n) == [kind |-> "int", s |-> "", n |-> n, items |-> <<>>]
BoolValue(b) == [kind |-> "bool", s |-> "", n |-> IF b THEN 1 ELSE 0, items |-> <<>>]
ListValue(items) == [kind |-> "list", s |-> "", n |-> 0, items |-> items]
NoneValue == [kind |-> "None", s |-> "", n |-> 0, items |-> <<>>]

\* repr(value).  A str is written between single quotes, or between double
\* quotes when it holds a single quote and no double quote; a backslash and the
\* quote mark that encloses it are each written after a backslash, and newline,
\* carriage return and tab as \n, \r and \t (the texts of the model hold no
\* other character that repr escapes).  A list is '[', the repr of each item
\* with ', ' between, ']'.
RECURSIVE repr(_)
repr(value) ==
    LET Holds(c) == \E i \in 1..Len(value.s) : SubSeq(value.s, i, i) = c
        Quoted(quote) ==
            quote \o Join("", [i \in 1..Len(value.s) |->
                        LET Escaped(c) ==
                                CASE c = "\\" -> "\\\\"
                                  [] c = quote -> "\\" \o c
                                  [] c = "\n" -> "\\n"
                                  [] c = "\r" -> "\\r"
                                  [] c = "\t" -> "\\t"
                                  [] OTHER -> c
                        IN  Escaped(SubSeq(value.s, i, i))]) \o quote
    IN  CASE value.kind = "str" ->
                Quoted(IF Holds("'") /\ ~Holds("\"") THEN "\"" ELSE "'")
          [] value.kind = "int" -> ToString(value.n)
          [] value.kind = "bool" -> IF value.n = 1 THEN "True" ELSE "False"
          [] value.kind = "list" ->
                "[" \o Join(", ", [i \in 1..Len(value.items) |-> repr(value.items[i])])
                    \o "]"
          [] value.kind = "None" -> "None"

\* str(value): the text itself for a str, and repr(value) for the other values
str(value) == IF value.kind = "str" THEN value.s ELSE repr(value)

\* the truth value of value, as in 'true' if value else 'false'
bool(value) ==
    CASE value.kind = "str" -> value.s # ""
      [] value.kind = "int" -> value.n # 0
      [] value.kind = "bool" -> value.n = 1
      [] value.kind = "list" -> value.items # <<>>
      [] value.kind = "None" -> FALSE

\* the table when a key already present keeps its value (INSERT OR IGNORE)
SettingsKeepingFirst(table, key, value) ==
    [k \in DOMAIN table \cup {key} |->
        IF k \in DOMAIN table THEN table[k] ELSE str(value)]

\* Database.set_setting(key, value) on the rows table: INSERT OR REPLACE INTO
\* settings (key, value) VALUES (key, str(value))
SettingsAfter(table, key, value) ==
    [k \in DOMAIN table \cup {key} |-> IF k = key THEN str(value) ELSE table[k]]

\* key -> value with one more key
With(f, key, value) ==
    [k \in DOMAIN f \cup {key} |-> IF k = key THEN value ELSE f[k]]

SettingsOperation(op) ==
    [op |-> op, keys |-> {}, written |-> call.written,
     logs0 |-> logs, settings0 |-> settings]

\* db.set_setting(key, value), called directly
SetSetting(key, value) ==
    /\ settings' = SettingsAfter(settings, key, value)
    /\ call' = [SettingsOperation("set_setting") EXCEPT
                    !.keys = {key}, !.written = With(call.written, key, value)]
    /\ UNCHANGED <<logs, sqlite_sequence, today, clock, cline, files, req>>

\* the keys update_settings looks for in the body, in the order of the route
RouteKeys ==
    <<"ai_summary_enabled", "ai_summary_points", "ai_timeout",
      "ai_custom_instructions", "report_template", "recent_logs_limit",
      "auto_open_browser", "reminder_enabled", "reminder_time", "reminder_days">>

\* update_settings: what the route gives set_setting for a key of the JSON body:
\* 'true' or 'false' by the truth value, str(value), the value itself, or
\* ','.join(value), which raises TypeError when value is not a str or a list,
\* and when an item of the list is not a str
Posted(key, value) ==
    CASE key \in {"ai_summary_enabled", "auto_open_browser", "reminder_enabled"} ->
            Ok(StrValue(IF bool(value) THEN "true" ELSE "false"))
      [] key = "reminder_time" -> Ok(value)
      [] key = "reminder_days" ->
            IF value.kind = "list"
            THEN IF \E i \in 1..Len(value.items) : value.items[i].kind # "str"
                 THEN Raise("TypeError")
                 ELSE Ok(StrValue(Join(",", [i \in 1..Len(value.items) |->
                                                value.items[i].s])))
            ELSE IF value.kind = "str"
            THEN Ok(StrValue(Join(",", [i \in 1..Len(value.s) |->
                                            SubSeq(value.s, i, i)])))
            ELSE Raise("TypeError")
      [] OTHER -> Ok(StrValue(str(value)))

\* POST /api/settings with the JSON object data: data = request.json
UpdateSettings(r, data) ==
    /\ req[r].pc = "idle"
    /\ req' = [req EXCEPT ![r] = [pc |-> "saving", data |-> data, at |-> 1,
                                  status |-> 0]]
    /\ UNCHANGED <<logs, sqlite_sequence, settings, today, clock, cline, files, call>>

\* the positions in RouteKeys, from where the request is, of the keys found in
\* its body
KeysLeft(r) ==
    {i \in req[r].at..Len(RouteKeys) : RouteKeys[i] \in DOMAIN req[r].data}

\* the next 'if key in data: db.set_setting(key, ...)' whose key is in the body:
\* one connection, one INSERT OR REPLACE, one commit; the TypeError of
\* ','.join ends the request with status 500 and what was saved stays saved
SaveSetting(r) ==
    /\ req[r].pc = "saving"
    /\ KeysLeft(r) # {}
    /\ LET i == CHOOSE m \in KeysLeft(r) : \A n \in KeysLeft(r) : m <= n
           key == RouteKeys[i]
           given == Posted(key, req[r].data[key])
       IN  IF given.exc # ""
           THEN /\ req' = [req EXCEPT ![r] = [pc |-> "idle", data |-> <<>>, at |-> 0,
                                              status |-> 500]]
                /\ UNCHANGED <<settings, call>>
           ELSE /\ settings' = SettingsAfter(settings, key, given.value)
                /\ req' = [req EXCEPT ![r].at = i + 1]
                /\ call' = [SettingsOperation("set_setting") EXCEPT
                                !.keys = {key},
                                !.written = With(call.written, key, given.value)]
    /\ UNCHANGED <<logs, sqlite_sequence, today, clock, cline, files>>

\* no key of the route is left: schedule_reminder_job(), then return
\* jsonify({'success': True}).  The job reads the settings and writes no table;
\* found is whether shutil.which('fastrep') finds the program, and when it does
\* and the reminder is enabled, hour, minute = time_str.split(':') raises
\* ValueError unless time_str has one colon; the request then ends with status 500
ReturnSettings(r, found) ==
    LET enabled == get_setting("reminder_enabled", None) = Text("true")
        time_str == TextOf(get_setting("reminder_time", Text("17:30")))
        colons == {i \in 1..Len(time_str) : SubSeq(time_str, i, i) = ":"}
    IN  /\ req[r].pc = "saving"
        /\ KeysLeft(r) = {}
        /\ req' = [req EXCEPT ![r] =
                        [pc |-> "idle", data |-> <<>>, at |-> 0,
                         status |-> IF found /\ enabled /\ Cardinality(colons) # 1
                                    THEN 500 ELSE 200]]
        /\ UNCHANGED <<logs, sqlite_sequence, settings, today, clock, cline, files, call>>

\* the JSON bodies posted: every key of the route, a key it does not know,
\* truth values that are not booleans, a reminder_time without colon,
\* reminder_days that is not a list, and a list where the route takes str(value)
Bodies ==
    {<<>>,
     [k \in {"ai_summary_enabled"} |-> BoolValue(TRUE)],
     [k \in {"ai_summary_enabled", "ai_timeout"} |->
        IF k = "ai_timeout" THEN IntValue(60) ELSE BoolValue(FALSE)],
     [k \in {"ai_summary_enabled", "recent_logs_limit"} |->
        IF k = "recent_logs_limit" THEN IntValue(50) ELSE IntValue(1)],
     [k \in {"report_template", "recent_logs"} |-> StrValue("bold")],
     [k \in {"reminder_enabled", "reminder_time", "reminder_days"} |->
        CASE k = "reminder_enabled" -> StrValue("false")
          [] k = "reminder_time" -> StrValue("17:30")
          [] k = "reminder_days" -> ListValue(<<StrValue("0"), StrValue("1")>>)],
     [k \in {"reminder_enabled", "reminder_time"} |->
        IF k = "reminder_time" THEN IntValue(1730) ELSE BoolValue(TRUE)],
     [k \in {"ai_summary_points", "reminder_days"} |->
        IF k = "reminder_days" THEN IntValue(5)
        ELSE ListValue(<<StrValue("3"), IntValue(5)>>)],
     [k \in {"ai_custom_instructions", "auto_open_browser"} |->
        IF k = "auto_open_browser" THEN NoneValue ELSE StrValue("")]}

InitSettings ==
    /\ logs = MakeStore(0, 2)
    /\ sqlite_sequence = Len(logs)
    /\ settings = <<>>
    /\ today = Today0
    /\ clock = 0
    /\ cline = FALSE
    /\ files = <<>>
    /\ req = [r \in {"s1"} |-> [pc |-> "idle", data |-> <<>>, at |-> 0, status |-> 0]]
    /\ call = [op |-> "connect", keys |-> {}, written |-> <<>>,
               logs0 |-> logs, settings0 |-> settings]

NextSettings ==
    \/ \E value \in {IntValue(120), BoolValue(TRUE),
                     ListValue(<<StrValue("0"), StrValue("it's"), StrValue("a\\b")>>)} :
            SetSetting("ai_timeout", value)
    \/ \E r \in DOMAIN req, data \in Bodies : UpdateSettings(r, data)
    \/ \E r \in DOMAIN req : SaveSetting(r)
    \/ \E r \in DOMAIN req, found \in BOOLEAN : ReturnSettings(r, found)

SpecSettings == InitSettings /\ [][NextSettings]_vars

-----------------------------------------------------------------------------
(* Writers served at once: each request thread runs one method of Database *)
(* on a connection of its own: sqlite3.connect, cursor.execute of one      *)
(* statement, conn.commit, conn.close.  req[w] holds the thread's locals;  *)
(* the tables are what is committed; call records the last commit and the  *)
(* tables before it, with the threads that had connected and not yet       *)
(* executed when it was made.                                              *)

MaxWriters == 3     \* the number of request threads

Writers == {"w" \o ToString(n) : n \in 1..MaxWriters}

\* a call of a writing method of Database
Write(op, log_id, project, description, day, key, value) ==
    [op |-> op, log_id |-> log_id,
     log |-> LogEntry(project, description, Datetime(day, 0)),
     key |-> key, value |-> value]

\* the calls the requests make
Writes ==
    {Write("add_log", 0, "Web", "fix login", Ordinal(2024, 3, 10), Unbound, Unbound),
     Write("add_log", 0, "api", "write docs", Ordinal(2024, 3, 12), Unbound, Unbound),
     Write("update_log", 1, "ops", "deploy", Ordinal(2024, 3, 11), Unbound, Unbound),
     Write("update_log", 1, "qa", "run tests", Ordinal(2024, 3, 13), Unbound, Unbound),
     Write("update_log", 2, "qa", "run tests", Ordinal(2024, 3, 13), Unbound, Unbound),
     Write("delete_log", 1, Unbound, Unbound, NoDate, Unbound, Unbound),
     Write("set_setting", 0, Unbound, Unbound, NoDate, "report_template", "bold"),
     Write("set_setting", 0, Unbound, Unbound, NoDate, "report_template", "classic")}

\* the tables as a connection holds them
Tables(rows, sequence, table) ==
    [logs |-> rows, sqlite_sequence |-> sequence, settings |-> table]

\* a thread that is in no method
NoWrite ==
    [pc |-> "idle", write |-> Write(Unbound, 0, Unbound, Unbound, NoDate, Unbound, Unbound),
     after |-> Tables(<<>>, 0, <<>>), lastrowid |-> 0, rowcount |-> 0]

\* the write lock of the database file is free for w: no other connection has
\* executed a statement and not committed it; cursor.execute waits otherwise
WriteLockFree(w) == \A v \in Writers \ {w} : req[v].pc # "executed"

\* the tables of the connection after the statement of c, not yet committed
Statement(c) ==
    CASE c.op = "add_log" ->
            Tables(Append(logs, InsertedRow(c.log)), InsertedRow(c.log).id, settings)
      [] c.op = "update_log" ->
            Tables(UpdatedRows(c.log_id, c.log.project, c.log.description, c.log.date),
                   sqlite_sequence, settings)
      [] c.op = "delete_log" ->
            Tables(RemainingRows(c.log_id), sqlite_sequence, settings)
      [] c.op = "set_setting" ->
            Tables(logs, sqlite_sequence, SettingsAfter(settings, c.key, StrValue(c.value)))

\* the last commit: its thread, the tables before it, and the threads waiting
\* to execute
Committed(w) ==
    [w |-> w, logs0 |-> logs, settings0 |-> settings,
     sqlite_sequence0 |-> sqlite_sequence,
     beside |-> {v \in Writers : req[v].pc = "connected"}]

\* conn = sqlite3.connect(self.db_path); cursor = conn.cursor()
Connect(w, c) ==
    /\ req[w].pc = "idle"
    /\ req' = [req EXCEPT ![w] = [NoWrite EXCEPT !.pc = "connected", !.write = c]]
    /\ UNCHANGED <<logs, sqlite_sequence, settings, today, clock, cline, files, call>>

\* cursor.execute(...): the statement waits for the write lock, takes it and
\* changes the connection's tables; cursor.lastrowid and cursor.rowcount are set
Execute(w) ==
    /\ req[w].pc = "connected"
    /\ WriteLockFree(w)
    /\ req' = [req EXCEPT ![w] =
                 [@ EXCEPT !.pc = "executed",
                           !.after = Statement(req[w].write),
                           !.lastrowid = IF req[w].write.op = "add_log"
                                         THEN InsertedRow(req[w].write.log).id ELSE 0,
                           !.rowcount = IF /\ req[w].write.op \in {"update_log", "delete_log"}
                                           /\ RowFound(req[w].write.log_id)
                                        THEN 1 ELSE 0]]
    /\ UNCHANGED <<logs, sqlite_sequence, settings, today, clock, cline, files, call>>

\* cursor.execute(...) when another connection holds the write lock for the five
\* seconds of sqlite3.connect's default timeout: sqlite3.OperationalError
\* (database is locked); the method ends without its statement and its commit
ExecuteLocked(w) ==
    /\ req[w].pc = "connected"
    /\ ~WriteLockFree(w)
    /\ req' = [req EXCEPT ![w].pc = "raised"]
    /\ UNCHANGED <<logs, sqlite_sequence, settings, today, clock, cline, files, call>>

\* conn.commit(): the connection's tables become the tables, the lock is freed;
\* conn.close(); return log_id, updated or deleted
Commit(w) ==
    /\ req[w].pc = "executed"
    /\ logs' = req[w].after.logs
    /\ sqlite_sequence' = req[w].after.sqlite_sequence
    /\ settings' = req[w].after.settings
    /\ req' = [req EXCEPT ![w].pc = "returned"]
    /\ call' = Committed(w)
    /\ UNCHANGED <<today, clock, cline, files>>

InitWriters ==
    /\ logs = MakeStore(0, 1)
    /\ sqlite_sequence = Len(logs)
    /\ settings = [k \in {"report_template"} |-> "compact"]
    /\ today = Today0
    /\ clock = MaxClock
    /\ cline = FALSE
    /\ files = <<>>
    /\ req = [w \in Writers |-> NoWrite]
    /\ call = Committed(Unbound)

NextWriters ==
    \/ \E w \in Writers, c \in Writes : Connect(w, c)
    \/ \E w \in Writers : Execute(w)
    \/ \E w \in Writers : ExecuteLocked(w)
    \/ \E w \in Writers : Commit(w)

SpecWriters == InitWriters /\ [][NextWriters]_vars

-----------------------------------------------------------------------------
(* Reading a rendered report back.                                         *)

\* the indices of the project headings: each is followed by the rule of dashes
TextHeadingAt(lines) == {i \in 1..(Len(lines) - 1) : lines[i + 1] = Rule("-")}

\* the indices of the HTML headings: each is followed by the list, or by the
\* summary marker
HtmlHeadingAt(parts) ==
    {i \in 1..(Len(parts) - 1) :
        /\ parts[i + 1] \in {"<ul>", "<p><em>(AI Summary)</em></p>"}
        /\ parts[i] # "<p><em>(AI Summary)</em></p>"}

\* the elements of s at the indices I, in order
Pick(s, I) == SelectSeq([i \in 1..Len(s) |-> IF i \in I THEN <<s[i]>> ELSE <<>>],
                        LAMBDA x : x # <<>>)

TextHeadings(lines) == [i \in 1..Cardinality(TextHeadingAt(lines)) |->
                            Pick(lines, TextHeadingAt(lines))[i][1]]

HtmlHeadings(parts) == [i \in 1..Cardinality(HtmlHeadingAt(parts)) |->
                            Pick(parts, HtmlHeadingAt(parts))[i][1]]

\* the lines of s after index i up to the first one equal to stop
RECURSIVE Until(_, _, _)
Until(s, i, stop) ==
    IF i > Len(s) \/ s[i] = stop THEN <<>> ELSE <<s[i]>> \o Until(s, i + 1, stop)

\* the lines under the heading of project p in the text report, after the rule
TextSection(lines, p) ==
    LET i == CHOOSE k \in TextHeadingAt(lines) : lines[k] = "Project: " \o p
    IN  Until(lines, i + 2, "")

\* the parts under the heading of project p in the HTML report, up to "</ul>"
HtmlSection(parts, p) ==
    LET i == CHOOSE k \in HtmlHeadingAt(parts) : parts[k] = "<h4>" \o p \o "</h4>"
    IN  Until(parts, i + 1, "</ul>")

ProjectsOf(ls) == {ls[i].project : i \in 1..Len(ls)}

TextItems(es, template_name) ==
    [i \in 1..Len(es) |->
        ItemFormat(TemplateGet(template_name).text_item,
                   strftime(es[i].date, TemplateGet(template_name).date_format),
                   es[i].description)]

HtmlItems(es, template_name) ==
    [i \in 1..Len(es) |->
        ItemFormat(TemplateGet(template_name).html_item,
                   strftime(es[i].date, TemplateGet(template_name).date_format),
                   es[i].description)]

\* the period header lines a report can begin with
TextPeriodHeaders ==
    {"Report Period: " \o strftime(today - k, "%m/%d") \o " - " \o strftime(today, "%m/%d")
        : k \in {6, 13, 30}}

HtmlPeriodHeaders ==
    {"<p><strong>Report Period:</strong> " \o strftime(today - k, "%m/%d") \o " - "
        \o strftime(today, "%m/%d") \o "</p>" : k \in {6, 13, 30}}

\* es by activity date descending, then creation timestamp descending
DateCreatedDescending(es) ==
    \A i, j \in 1..Len(es) :
        i < j => \/ es[i].date > es[j].date
                 \/ es[i].date = es[j].date /\ es[i].created_at >= es[j].created_at

\* es by activity date descending, the entries of one date in the order of ls
RECURSIVE ByDateKeepingOrder(_, _)
ByDateKeepingOrder(ls, dates) ==
    IF dates = {} THEN <<>>
    ELSE LET d == CHOOSE x \in dates : \A y \in dates : y <= x
         IN  SelectSeq(ls, LAMBDA e : e.date = d) \o ByDateKeepingOrder(ls, dates \ {d})

TextDone == call.text.exc = "" /\ call.logs # <<>>
HtmlDone == call.html.exc = "" /\ call.logs # <<>>

-----------------------------------------------------------------------------
(* Claims about the rendering functions, under SpecFormat.                 *)

\* C3 (as claimed): a report of a non-empty list begins with the period header
\* if and only if the template's show_header is true and a mode was given.
C3_HeaderIffShowHeaderAndMode ==
    LET shown == TemplateGet(call.template_name).show_header /\ Truthy(call.mode)
    IN  /\ TextDone => ((call.text.value[1] \in TextPeriodHeaders) <=> shown)
        /\ HtmlDone => ((call.html.value[1] \in HtmlPeriodHeaders) <=> shown)

\* C4 (as claimed): whatever the order of the list, the lines under a project
\* heading are in descending date order, entries of one date in descending
\* creation order.
C4_BlocksByDateThenCreation ==
    \A p \in ProjectsOf(call.logs) :
        /\ TextDone =>
              \E es \in [1..Len(ProjectLogs(call.logs, p)) -> EntryUniverse] :
                  /\ DateCreatedDescending(es)
                  /\ TextSection(call.text.value, p) = TextItems(es, call.template_name)
        /\ HtmlDone =>
              \E es \in [1..Len(ProjectLogs(call.logs, p)) -> EntryUniverse] :
                  /\ DateCreatedDescending(es)
                  /\ HtmlSection(call.html.value, p) = <<"<ul>">> \o HtmlItems(es, call.template_name)

\* C4 (amended): the lines under a project heading are the project's entries in
\* descending date order, entries of one date in the order the list gave them;
\* so they are in descending creation order within a date when the list is
\* ordered by date descending, then creation timestamp descending.
C4_BlocksByDateKeepingListOrder ==
    \A p \in ProjectsOf(call.logs) :
        LET mine == ProjectLogs(call.logs, p)
            expected == ByDateKeepingOrder(mine, {mine[i].date : i \in 1..Len(mine)})
        IN  /\ TextDone =>
                /\ TextSection(call.text.value, p) = TextItems(expected, call.template_name)
                /\ DateCreatedDescending(call.logs) => DateCreatedDescending(expected)
            /\ HtmlDone =>
                /\ HtmlSection(call.html.value, p) = <<"<ul>">> \o HtmlItems(expected, call.template_name)
                /\ DateCreatedDescending(call.logs) => DateCreatedDescending(expected)

\* C4 witness: both renderings done for a list that gives a project an earlier
\* date before a later one, and two entries of one date in ascending creation
\* order.
C4_Witness ==
    /\ TextDone /\ HtmlDone
    /\ \E i, j \in 1..Len(call.logs) :
          /\ i < j /\ call.logs[i].project = call.logs[j].project
          /\ call.logs[i].date < call.logs[j].date
    /\ \E i, j \in 1..Len(call.logs) :
          /\ i < j /\ call.logs[i].project = call.logs[j].project
          /\ call.logs[i].date = call.logs[j].date
          /\ call.logs[i].created_at < call.logs[j].created_at

\* C5: a report of a non-empty list has exactly one heading for each distinct
\* project name of the list, no other heading, and the headings are in ascending
\* order of project name.
C5_OneHeadingPerProjectAscending ==
    LET ps == ProjectsOf(call.logs)
        Good(hs, Heading(_)) ==
            /\ Len(hs) = Cardinality(ps)
            /\ \A p \in ps : Cardinality({i \in 1..Len(hs) : hs[i] = Heading(p)}) = 1
            /\ \A i, j \in 1..Len(hs) :
                  i < j => \E a, b \in ps :
                              hs[i] = Heading(a) /\ hs[j] = Heading(b) /\ StrLess(a, b)
    IN  /\ TextDone => Good(TextHeadings(call.text.value), LAMBDA p : "Project: " \o p)
        /\ HtmlDone => Good(HtmlHeadings(call.html.value), LAMBDA p : "<h4>" \o p \o "</h4>")

\* C5 witness: both renderings done for a list of three entries whose projects
\* are "web", "api" and "Web", in that order.
C5_Witness ==
    /\ TextDone /\ HtmlDone
    /\ Len(call.logs) = 3
    /\ call.logs[1].project = "web"
    /\ call.logs[2].project = "api"
    /\ call.logs[3].project = "Web"


-----------------------------------------------------------------------------
(* Claims about the report route, checked under Spec.                      *)

\* the calls of the external tool a request made from function fn
CallsOf(q, fn) == SelectSeq(q.calls, LAMBDA c : c.fn = fn)

\* the entries of project p among the entries ls
EntriesOf(ls, p) == SelectSeq(ls, LAMBDA e : e.project = p)

\* the tool did not give call c a text: it failed, ran out of time, or left the
\* output file empty or unwritten
Failed(c) == c.outcome # "ok" \/ c.wrote \in {"nothing", "empty"}

\* the request is past the generate_summaries step
Generated(q) == q.pc \in {"html", "text", "done"} /\ q.status # 400

\* C1: when the call of the tool for a project runs out of time
\* (subprocess.TimeoutExpired in summarize_project_logs), the mapping that
\* generate_summaries returns has no entry for that project, and the HTML and
\* the text built for that project are what is built for the same entries with
\* no summaries at all.
C1_TimeoutLeavesNoEntry ==
    \A r \in Requests :
        LET q == req[r]
        IN  \A i \in 1..Len(q.calls) :
                (/\ q.calls[i].fn = "summarize"
                 /\ q.calls[i].outcome = "TimeoutExpired"
                 /\ Generated(q)) =>
                    /\ q.calls[i].project \notin DOMAIN q.summaries
                    /\ q.html # NotCalled =>
                          HtmlSection(q.html.value, q.calls[i].project) =
                              HtmlSection(format_report_html(q.logs, Text(q.mode),
                                              NoSummaries, q.template_name, today).value,
                                          q.calls[i].project)
                    /\ (q.pc = "done" /\ q.text.exc = "") =>
                          q.text = format_report(q.logs, Text(q.mode), NoSummaries,
                                                 q.template_name, today)


\* C2 as stated: in one request the external tool is invoked only inside the
\* generate_summaries step; producing the text and the HTML issues no further
\* external call.
C2_NoCallOutsideGenerateSummaries ==
    \A r \in Requests : CallsOf(req[r], "improve") = <<>>

\* C2 amended: generate_summaries runs once per request and its result is given
\* to both renderings; format_report_html issues no external call;
\* format_report issues exactly one further external call, from
\* improve_report_text, when there are entries and the summaries are not empty,
\* and none otherwise; it is the last call of the request, and the text returned
\* is what the tool wrote when the tool wrote a text, and the text format_report
\* built when the tool failed, while the HTML shows the summaries.
C2_OneFurtherCallFromFormatReport ==
    \A r \in Requests :
        LET q == req[r]
            improving == CallsOf(q, "improve")
        IN  /\ Len(improving) <= 1
            /\ improving # <<>> =>
                  /\ q.calls[Len(q.calls)].fn = "improve"
                  /\ q.html # NotCalled
                  /\ q.logs # <<>> /\ DOMAIN q.summaries # {}
            /\ q.pc = "text" => improving = <<>>
            /\ (q.pc = "done" /\ q.text.exc = "") =>
                  /\ Len(improving) = 1 <=> (q.logs # <<>> /\ DOMAIN q.summaries # {})
                  /\ \A p \in DOMAIN q.summaries :
                        HtmlSection(q.html.value, p) =
                            <<"<p><em>(AI Summary)</em></p>", "<ul>">>
                            \o [k \in 1..Len(q.summaries[p]) |->
                                    "<li>" \o q.summaries[p][k][2] \o "</li>"]
                  /\ improving = <<>> =>
                        q.text = format_report(q.logs, Text(q.mode), q.summaries,
                                               q.template_name, today)
                  /\ improving # <<>> =>
                        q.text.value = IF Failed(improving[1]) THEN q.final_text
                                       ELSE ImprovedContent

\* a request is answered with the text the tool wrote for improve_report_text,
\* after two summarization calls, and the page is rendered
C2_Witness ==
    \E r \in Requests :
        /\ req[r].pc = "done" /\ req[r].status = 200 /\ req[r].index.exc = ""
        /\ Len(CallsOf(req[r], "summarize")) = 2
        /\ Len(CallsOf(req[r], "improve")) = 1
        /\ ~Failed(CallsOf(req[r], "improve")[1])
        /\ req[r].text.value = ImprovedContent


\* the projects of the entries ls that have more than SummaryThreshold entries
LargeProjects(ls) ==
    {p \in ProjectsOf(ls) : Len(EntriesOf(ls, p)) > SummaryThreshold}

\* C6: a request makes or is about to make an external call only if the mode is
\* monthly, the setting ai_summary_enabled is 'true' and the tool is available;
\* in every other case, the setting never set included, generate_summaries
\* returns the empty mapping and no call is made.
C6_CallsOnlyWhenEnabledAndAvailable ==
    \A r \in Requests :
        LET q == req[r]
            enabled == /\ "ai_summary_enabled" \in DOMAIN settings
                       /\ settings["ai_summary_enabled"] = "true"
            gate == q.mode = "monthly" /\ enabled /\ cline
        IN  /\ (q.calls # <<>> \/ q.pc = "run") => gate
            /\ (Generated(q) /\ ~gate) => (DOMAIN q.summaries = {} /\ q.calls = <<>>)

\* a monthly request over a store with a large project is answered without any
\* call: the tool is available and the setting was never set
C6_Witness ==
    \E r \in Requests :
        /\ req[r].pc = "done" /\ req[r].status = 200 /\ req[r].mode = "monthly"
        /\ LargeProjects(req[r].logs) # {}
        /\ cline /\ "ai_summary_enabled" \notin DOMAIN settings
        /\ req[r].calls = <<>> /\ DOMAIN req[r].summaries = {}

\* C7 as stated: one request issues at most one summarization call, whatever the
\* number of projects.
C7_AtMostOneSummarizationCall ==
    \A r \in Requests : Len(CallsOf(req[r], "summarize")) <= 1

\* C7 amended: one request issues one summarization call per project that has
\* more than five entries in the period: never two for one project, none for a
\* project with five entries or fewer, and once generate_summaries is over, as
\* many calls as there are such projects; the calls are made one after the
\* other, and after a call that returns the request pauses two seconds: it is
\* asleep until then, and its next call begins two seconds or more after the
\* return.
C7_OneCallPerLargeProject ==
    \A r \in Requests :
        LET q == req[r]
            summarizing == CallsOf(q, "summarize")
            called == {summarizing[i].project : i \in 1..Len(summarizing)}
        IN  /\ Cardinality(called) = Len(summarizing)
            /\ called \subseteq LargeProjects(q.logs)
            /\ (Generated(q) /\ q.summarize) => called = LargeProjects(q.logs)
            /\ \A i \in 1..Len(q.calls) :
                  /\ q.calls[i].start <= q.calls[i].end
                  /\ i < Len(q.calls) =>
                        /\ q.calls[i].result # "running"
                        /\ q.calls[i].end <= q.calls[i + 1].start
                  /\ (q.calls[i].fn = "summarize" /\ q.calls[i].result = "returned") =>
                        /\ i < Len(q.calls) =>
                              q.calls[i + 1].start >= q.calls[i].end + 2
                        /\ i = Len(q.calls) =>
                              IF q.pc = "sleep" THEN q.wake = q.calls[i].end + 2
                              ELSE clock >= q.calls[i].end + 2

\* a request is answered after one summarization call for each of two
\* projects, the first of which took a second and the second of which began two
\* seconds after the first returned
C7_Witness ==
    \E r \in Requests :
        /\ req[r].pc = "done"
        /\ Cardinality(LargeProjects(req[r].logs)) = 2
        /\ Len(CallsOf(req[r], "summarize")) = 2
        /\ req[r].calls[1].end = req[r].calls[1].start + 1
        /\ req[r].calls[2].start = req[r].calls[1].end + 2

\* a request is inside summarize_project_logs or improve_report_text
InCall(q) == q.pc \in {"run", "read", "finally", "remove"}

\* C8: whatever the outcome of the tool, the output file of a call does not exist
\* when summarize_project_logs or improve_report_text has returned: while the
\* request is outside these functions, once it is answered, and when the thread
\* waits for its next request after any number of requests answered, the
\* directory holds no file.
C8_NoTempFileOutsideCalls ==
    \A r \in Requests : ~InCall(req[r]) => DOMAIN files = {}

\* the second request of a thread is answered after a call that ran out of time
\* having written its file, and a call that returned having written an empty
\* file
C8_Witness ==
    \E r \in Requests :
        /\ req[r].pc = "done" /\ req[r].served >= 1
        /\ \E i, j \in 1..Len(req[r].calls) :
              /\ req[r].calls[i].outcome = "TimeoutExpired"
              /\ req[r].calls[i].wrote = "content"
              /\ req[r].calls[j].outcome = "ok"
              /\ req[r].calls[j].wrote = "empty"
        /\ DOMAIN files = {}


-----------------------------------------------------------------------------
(* Claims about requests served at once, checked under SpecConcurrent.     *)

\* C9: when two requests are inside their calls of the tool at once, the paths
\* of their output files are distinct, and the file a request reads or removes
\* is the one written for it.
C9_ConcurrentPathsDistinct ==
    \A r1, r2 \in Requests :
        (r1 # r2 /\ InCall(req[r1]) /\ InCall(req[r2])) =>
            /\ req[r1].output_file # req[r2].output_file
            /\ (req[r1].pc \in {"read", "remove"}
                    /\ req[r1].output_file \in DOMAIN files) =>
                        files[req[r1].output_file].writer = r1

\* C10: whatever the outcomes of its external calls, a request for a valid mode
\* ends with status 200, a rendered text and a rendered HTML: no failure of a
\* call raises out of generate_summaries or format_report.
C10_RequestsAlwaysRender ==
    \A r \in Requests :
        LET q == req[r]
        IN  (q.pc = "done" /\ q.mode \in Modes) =>
                /\ q.status = 200
                /\ q.html # NotCalled /\ q.html.exc = ""
                /\ q.text # NotCalled /\ q.text.exc = ""


-----------------------------------------------------------------------------
(* Claims about repeated calls and date ranges, checked under SpecRepeat.  *)

\* C11: calling format_report and format_report_html twice with the same
\* entries, mode and template name and no summaries returns the same text and
\* the same HTML, whatever changed between the two calls.
C11_RenderingTwiceIsIdentical ==
    (call.text2 # NotCalled /\ call.summaries = NoSummaries) =>
        /\ ReportText(call.text2.value) = ReportText(call.text.value)
        /\ call.text2.exc = call.text.exc
        /\ ReportHtml(call.html2.value) = ReportHtml(call.html.value)
        /\ call.html2.exc = call.html.exc

\* C12: for an empty entry list, with any mode, template name and summaries,
\* format_report returns the placeholder text and format_report_html the
\* placeholder markup: neither is empty, neither raises, and format_report
\* does not go on to improve_report_text.
C12_EmptyListGivesPlaceholder ==
    (call.text # NotCalled /\ call.logs = <<>>) =>
        /\ call.text.exc = "" /\ call.html.exc = ""
        /\ ReportText(call.text.value) = "No logs found for this period."
        /\ ReportHtml(call.html.value) = "<p>No logs found for this period.</p>"
        /\ ReportText(call.text.value) # "" /\ ReportHtml(call.html.value) # ""
        /\ ~Improves(call.logs, call.summaries)

\* the empty list was rendered with a mapping of summaries and a mode
\* get_date_range does not know
C12_Witness ==
    /\ call.text # NotCalled /\ call.logs = <<>>
    /\ call.summaries # NoSummaries /\ call.mode = Text("yearly")
    /\ call.template_name = "fancy"

\* the day n days before the civil date c = <<year, month, day>>, counted back
\* one calendar day at a time
RECURSIVE DaysBack(_, _)
DaysBack(c, n) ==
    IF n = 0 THEN c
    ELSE DaysBack(IF c[3] > 1 THEN <<c[1], c[2], c[3] - 1>>
                  ELSE IF c[2] > 1 THEN <<c[1], c[2] - 1, DaysInMonth(c[1], c[2] - 1)>>
                  ELSE <<c[1] - 1, 12, 31>>, n - 1)

\* C13: get_date_range returns end = today and start = today - 6 days for
\* weekly, today - 13 for biweekly, today - 30 for monthly, start <= end; on
\* 2024-03-15 weekly is [2024-03-09, 2024-03-15]; any other mode is rejected.
C13_RollingWindows ==
    call.range # NotCalled =>
        IF call.mode \in {Text(m) : m \in Modes}
        THEN LET back == CASE call.mode = Text("weekly") -> 6
                           [] call.mode = Text("biweekly") -> 13
                           [] call.mode = Text("monthly") -> 30
                 start == call.range.value[1]
                 end == call.range.value[2]
             IN  /\ call.range.exc = ""
                 /\ end = call.range_day
                 /\ Civil(start) = DaysBack(Civil(call.range_day), back)
                 /\ start <= end
                 /\ (call.mode = Text("weekly")
                        /\ Civil(call.range_day) = <<2024, 3, 15>>) =>
                        Civil(start) = <<2024, 3, 9>> /\ Civil(end) = <<2024, 3, 15>>
        ELSE call.range.exc = "ValueError"

\* the monthly range asked for on 2024-03-01 starts in January, across the
\* leap day
C13_Witness ==
    /\ call.range # NotCalled /\ call.mode = Text("monthly")
    /\ Civil(call.range_day) = <<2024, 3, 1>>
    /\ Civil(call.range.value[1]) = <<2024, 1, 31>>


-----------------------------------------------------------------------------
(* Claims about the store, checked under SpecDatabase.                     *)

\* the indices of the entries of es whose id is log_id
WithId(es, log_id) == {k \in 1..Len(es) : es[k].id = log_id}

\* the row of rows whose id is log_id
RowOf(rows, log_id) == rows[CHOOSE k \in WithId(rows, log_id) : TRUE]

\* the ranges that cover day d: each bound absent, on d, or a day off
Covering(d) == {r \in {NoDate, d - 1, d} \X {NoDate, d, d + 1} : TRUE}

\* C14: once add_log(e) has returned id i, get_logs over any range covering the
\* activity date of e, or with no range, returns exactly one entry with id i;
\* its project and description are those of e and its date is the date of e
\* cut to the day.
C14_AddThenGetRoundTrip ==
    (call.op = "add_log" /\ call.status = 200) =>
        \A r \in Covering(call.log.date.day) :
            LET found == get_logs(r[1], r[2])
            IN  /\ found.exc = ""
                /\ Cardinality(WithId(found.value, call.id)) = 1
                /\ RowOf(found.value, call.id).project = call.log.project
                /\ RowOf(found.value, call.id).description = call.log.description
                /\ RowOf(found.value, call.id).date = call.log.date.day

\* the number written in decimal digits as s
RECURSIVE Number(_)
Number(s) ==
    IF s = "" THEN 0
    ELSE 10 * Number(SubSeq(s, 1, Len(s) - 1)) + DigitOf(SubSeq(s, Len(s), Len(s)))

\* the activity date of a stored entry: the day that strftime('%Y-%m-%d') wrote
\* as text, a year of any number of digits, '-mm-dd'
ActivityDate(text) ==
    Ordinal(Number(SubSeq(text, 1, Len(text) - 6)),
            Number(SubSeq(text, Len(text) - 4, Len(text) - 3)),
            Number(SubSeq(text, Len(text) - 1, Len(text))))

\* C15: get_logs(start, end) returns exactly the stored entries whose date d
\* has start <= d <= end, an absent bound not limiting, by date descending then
\* creation timestamp descending; the view command given a start or an end
\* that parse passes them to get_logs as they are and renders without the mode.
C15_RangeQuery ==
    (call.op \in {"get_logs", "view"} /\ call.found # NotCalled) =>
        LET inside == {k \in 1..Len(logs) :
                        /\ (call.start = NoDate \/ call.start <= ActivityDate(logs[k].date))
                        /\ (call.end = NoDate \/ ActivityDate(logs[k].date) <= call.end)}
        IN  /\ call.found.exc = ""
            /\ Len(call.found.value) = Cardinality(inside)
            /\ \A k \in inside : \E n \in 1..Len(call.found.value) :
                  call.found.value[n] =
                      [logs[k] EXCEPT !.date = ActivityDate(logs[k].date)]
            /\ DateCreatedDescending(call.found.value)
            /\ call.op = "view" =>
                  /\ call.text.exc = ""
                  /\ call.found.value # <<>> =>
                        (call.text.value[1] \in TextPeriodHeaders)
                            <=> (call.start = today - 6 /\ call.end = today)

\* the ids of the rows before the last operation
StoredIds0 == {call.logs0[i].id : i \in 1..Len(call.logs0)}

\* C16: update_log and delete_log given an identifier that is not in the store
\* return False without raising and leave every entry and every setting as they
\* were; given a stored identifier they return True.
C16_NotFoundIsAValue ==
    (call.op \in {"update_log", "delete_log"} /\ call.status # 400) =>
        IF call.log_id \in StoredIds0
        THEN call.ok /\ call.status = 200
        ELSE /\ ~call.ok /\ call.status = 404
             /\ logs = call.logs0
             /\ settings = call.settings0
             /\ sqlite_sequence = call.sqlite_sequence0

\* an update was refused for an identifier that add_log had returned and that is
\* stored no more, while another entry is stored
C16_Witness ==
    /\ call.op = "update_log" /\ call.status = 404
    /\ call.log_id <= call.sqlite_sequence0
    /\ call.logs0 # <<>>

\* C17: no two stored entries have the same identifier; update_log(i, ...)
\* replaces project, description and date of entry i together and leaves its
\* identifier and creation timestamp; no other operation changes a field of an
\* entry that stays stored.
C17_IdentifiersAndTimestampsStable ==
    /\ \A i, j \in 1..Len(logs) : logs[i].id = logs[j].id => i = j
    /\ \A i \in StoredIds \cap StoredIds0 :
          IF call.op = "update_log" /\ call.status = 200 /\ i = call.log_id
          THEN RowOf(logs, i) =
                  [id |-> i, created_at |-> RowOf(call.logs0, i).created_at,
                   project |-> call.log.project,
                   description |-> call.log.description,
                   date |-> StoredDate(call.log.date)]
          ELSE RowOf(logs, i) = RowOf(call.logs0, i)

\* an entry was updated to another project, description and date while a second
\* entry was stored
C17_Witness ==
    /\ call.op = "update_log" /\ call.status = 200
    /\ Len(logs) = 2
    /\ RowOf(logs, call.log_id).project # RowOf(call.logs0, call.log_id).project
    /\ RowOf(logs, call.log_id).description # RowOf(call.logs0, call.log_id).description
    /\ RowOf(logs, call.log_id).date # RowOf(call.logs0, call.log_id).date

\* C18: every stored entry has a non-empty description and a non-empty project
\* name, whichever front end stored it; a request without description or with
\* a date that cannot be parsed leaves the store as it was.
C18_StoredEntriesValid ==
    /\ \A i \in 1..Len(logs) : logs[i].description # "" /\ logs[i].project # ""
    /\ call.status = 400 => logs = call.logs0


\* C22: delete_log(i) on a stored identifier removes exactly entry i and leaves
\* every other entry, in its place, and every setting; clear_all removes every
\* entry and leaves every setting; the identifier add_log returns is none of the
\* identifiers add_log returned before, whatever was deleted or cleared since.
C22_DestroyingOperationsFrame ==
    /\ (call.op = "delete_log" /\ call.ok) =>
          /\ StoredIds = StoredIds0 \ {call.log_id}
          /\ logs = SelectSeq(call.logs0, LAMBDA row : row.id # call.log_id)
          /\ Len(logs) = Len(call.logs0) - 1
          /\ settings = call.settings0
    /\ call.op = "clear_all" =>
          /\ logs = <<>>
          /\ settings = call.settings0
    /\ (call.op = "add_log" /\ call.status = 200) =>
          /\ call.id \notin call.returned
          /\ call.id \in StoredIds

\* add_log returned an identifier after it had returned another and the store
\* had been emptied by delete_log or clear_all
C22_Witness ==
    /\ call.op = "add_log" /\ call.status = 200
    /\ call.returned # {}
    /\ call.logs0 = <<>>

-----------------------------------------------------------------------------
(* Claims about the settings, checked under SpecSettings.                  *)

\* the text of each value given to set_setting, written out: the value itself
\* when it is a str, and for the others what Python prints for it
Printed(value) ==
    CASE value.kind = "str" -> value.s
      [] value = IntValue(120) -> "120"
      [] value = IntValue(1730) -> "1730"
      [] value = BoolValue(TRUE) -> "True"
      [] value = ListValue(<<StrValue("0"), StrValue("it's"), StrValue("a\\b")>>) ->
            "['0', \"it's\", 'a\\\\b']"

\* C19: after any sequence of set_setting calls, get_setting(k, default)
\* returns the value of the last set_setting(k, v) as a string, or the default
\* when k was never set; a set_setting changes no other key and no log entry.
C19_SettingsLastWriteWins ==
    /\ \A k \in {RouteKeys[i] : i \in DOMAIN RouteKeys} \cup {"recent_logs"} :
          /\ get_setting(k, Text("classic")) =
                Text(IF k \in DOMAIN call.written THEN Printed(call.written[k])
                     ELSE "classic")
          /\ get_setting(k, None) =
                IF k \in DOMAIN call.written THEN Text(Printed(call.written[k]))
                ELSE None
          /\ k \notin call.keys =>
                (k \in DOMAIN settings <=> k \in DOMAIN call.settings0)
          /\ (k \notin call.keys /\ k \in DOMAIN settings) =>
                settings[k] = call.settings0[k]
    /\ logs = call.logs0

\* a request of update_settings has saved ai_summary_enabled as 'false' over
\* 'true' and has not yet saved its ai_timeout, which holds the text of the
\* list that set_setting was given last, while report_template keeps the value
\* it had
C19_Witness ==
    /\ call.op = "set_setting" /\ call.keys = {"ai_summary_enabled"}
    /\ "ai_summary_enabled" \in DOMAIN call.settings0
    /\ call.settings0["ai_summary_enabled"] = "true"
    /\ settings["ai_summary_enabled"] = "false"
    /\ \E r \in DOMAIN req :
          /\ req[r].pc = "saving" /\ req[r].at > 1
          /\ \E i \in KeysLeft(r) : RouteKeys[i] = "ai_timeout"
    /\ "ai_timeout" \in DOMAIN settings
    /\ call.written["ai_timeout"].kind = "list"
    /\ settings["ai_timeout"] = "['0', \"it's\", 'a\\\\b']"
    /\ "report_template" \in DOMAIN settings
    /\ settings["report_template"] = call.settings0["report_template"]

-----------------------------------------------------------------------------
(* A claim about writers served at once, checked under SpecWriters.        *)

\* the threads whose call of op has returned
ReturnedFrom(op) == {w \in Writers : req[w].pc = "returned" /\ req[w].write.op = op}

\* project, description and date of a call, as stored
TripleOf(c) == <<c.log.project, c.log.description, StoredDate(c.log.date)>>

\* project, description and date of a row
TripleIn(row) == <<row.project, row.description, row.date>>

\* the tables are the tables before the last commit with the one write of its
\* call made to them
OneWrite(c) ==
    CASE c.op = "add_log" ->
            /\ logs = Append(call.logs0,
                             [id |-> call.sqlite_sequence0 + 1,
                              project |-> c.log.project,
                              description |-> c.log.description,
                              date |-> StoredDate(c.log.date),
                              created_at |-> c.log.created_at])
            /\ req[call.w].lastrowid = call.sqlite_sequence0 + 1
            /\ settings = call.settings0
      [] c.op = "update_log" ->
            /\ Len(logs) = Len(call.logs0)
            /\ \A k \in 1..Len(logs) :
                  logs[k] = IF call.logs0[k].id = c.log_id
                            THEN [id |-> c.log_id,
                                  project |-> c.log.project,
                                  description |-> c.log.description,
                                  date |-> StoredDate(c.log.date),
                                  created_at |-> call.logs0[k].created_at]
                            ELSE call.logs0[k]
            /\ (req[call.w].rowcount > 0) <=> (c.log_id \in StoredIds0)
            /\ settings = call.settings0
      [] c.op = "delete_log" ->
            /\ logs = SelectSeq(call.logs0, LAMBDA row : row.id # c.log_id)
            /\ (req[call.w].rowcount > 0) <=> (c.log_id \in StoredIds0)
            /\ settings = call.settings0
      [] c.op = "set_setting" ->
            /\ logs = call.logs0
            /\ settings = With(call.settings0, c.key, c.value)

\* C21: whatever the interleaving of add_log, update_log, delete_log and
\* set_setting calls of requests served at once, each call takes effect, none
\* ending without its write, as one write of one row made to the tables the
\* call before it left; two add_log calls return distinct identifiers and both
\* entries are stored; and once update_log calls on an identifier have returned,
\* the entry is the (project, description, date) of one of them whole, with the
\* creation timestamp it had.
C21_ConcurrentWritesAtomic ==
    /\ \A w \in Writers : req[w].pc # "raised"
    /\ call.w # Unbound => OneWrite(req[call.w].write)
    /\ \A v, w \in ReturnedFrom("add_log") :
          /\ v # w => req[v].lastrowid # req[w].lastrowid
          /\ req[w].lastrowid \in StoredIds
          /\ \/ TripleIn(RowOf(logs, req[w].lastrowid)) = TripleOf(req[w].write)
             \/ \E u \in ReturnedFrom("update_log") :
                   /\ req[u].write.log_id = req[w].lastrowid
                   /\ TripleIn(RowOf(logs, req[w].lastrowid)) = TripleOf(req[u].write)
    /\ \A i \in StoredIds :
          LET updates == {u \in ReturnedFrom("update_log") :
                            req[u].write.log_id = i /\ req[u].rowcount > 0}
          IN  /\ updates # {} =>
                    \E u \in updates : TripleIn(RowOf(logs, i)) = TripleOf(req[u].write)
              /\ Cardinality(WithId(logs, i)) = 1

-----------------------------------------------------------------------------
(* A further claim about the report route, checked under Spec.             *)

\* C20: within one request the external call for a project is issued at most
\* once; after it fails (error, timeout, or empty or missing output) the
\* request takes the fallback path for that project, which is no entry in the
\* mapping of summaries and the entries of the project rendered as they are,
\* and it never issues a second call for the project.
C20_NoRetry ==
    \A r \in Requests :
        LET q == req[r]
        IN  /\ \A i, j \in 1..Len(q.calls) :
                  (q.calls[i].fn = q.calls[j].fn /\ q.calls[i].project = q.calls[j].project)
                      => i = j
            /\ \A i \in 1..Len(q.calls) :
                  (q.calls[i].fn = "summarize" /\ Failed(q.calls[i]) /\ Generated(q)) =>
                      /\ q.calls[i].project \notin DOMAIN q.summaries
                      /\ q.html # NotCalled =>
                            HtmlSection(q.html.value, q.calls[i].project) =
                                <<"<ul>">> \o HtmlItems(
                                    group_by_project(q.logs)[q.calls[i].project],
                                    q.template_name)

=============================================================================
